---- MODULE Spec2Model ----
(***************************************************************************)
(* Order / payment fulfilment engine of the storefront backend:            *)
(* product administration, cart, order creation, payment initiation        *)
(* (Pesapal redirect variant; the two PayPal routes, which answer at their  *)
(* validation middleware), the three confirmation ingress handlers         *)
(* (browser callback, IPN push notification, signed webhook), status       *)
(* query, order status changes and order cancellation.                     *)
(*                                                                         *)
(* Every handler is an async function: it is modelled as the segments      *)
(* between the awaits at which it touches the database or the token cache. *)
(* A request in flight sits in a slot of reqs with the documents it has    *)
(* loaded; its Begin action runs the handler up to the first such await    *)
(* and its Resume action runs the segment that comes next.                 *)
(*                                                                         *)
(* Amounts are whole currency units; the 0.01 tolerance of the handlers is *)
(* kept as ToleranceCents on a scale of 100.                               *)
(***************************************************************************)
EXTENDS Integers, Sequences, FiniteSets, TLC

\* ------------------------------------------------------------------ bounds
MaxOrders == 1
MaxQty == 2
InitStock == 2
MaxAdminOps == 1
MaxCartOps == 2
MaxRequests == 2
MaxAdmitted == 2
MaxOverlaps == 1
MaxManualOps == 1
MaxStockOrders == 2
MaxClock == 3
MaxFetches == 3

\* --------------------------------------------------------------- constants
ToleranceCents == 1
CentsPerUnit == 100
HomeShippingFee == 50
TaxAmount == 0
TimestampModulus == 1000000
CountPad == 10000

Products == {"p1", "p2"}
Users == {"u1"}
Prices == {10, 20}
DeliveryMethods == {"home", "pickup"}
TrackingIds == {"t1", "t2"}
NoId == "none"
CaptureId == "cap"
OrderIds == 1..(IF MaxOrders > MaxStockOrders THEN MaxOrders ELSE MaxStockOrders)
ReqIds == 1..MaxRequests
NoOrder == 0
NoToken == 0
NoCartDocument == -1

OrderStatuses == {"pending", "confirmed", "processing", "shipped", "delivered", "cancelled"}

VARIABLES
  products,   \* Product collection: productId -> [stock, price, active, deleted, unused]
  carts,      \* Cart collection: userId -> items, a sequence of [id, productId, quantity, price]
  cartV,      \* Cart collection: userId -> the version key (__v) of the cart
              \* document, NoCartDocument while the user has none
  orders,     \* Order collection (index = _id and order number of the document)
  reqs,       \* requests in flight: slot -> <<>> or <<what the request holds>>
  decd,       \* history: quantity each order's fulfilment has subtracted per product
  restd,      \* history: quantity each order's cancellation has added per product
  nClear,     \* history: number of cart clears done by fulfilment of each order
  nCart,      \* history: number of cart requests so far (bounded)
  nAdmin,     \* history: number of administrator edits so far (bounded)
  nReq,       \* history: number of requests admitted while others may be in
              \* flight (bounded; a request admitted while none is in flight
              \* is not counted where requests are served one by one or mixed)
  paypalAuth, \* PayPal service: cached accessToken and tokenExpiry, with the
              \* clock, the token fetches in flight and the tokens issued so far
  last        \* history: the handler segment that produced this state and its response

vars == <<products, carts, cartV, orders, reqs, decd, restd, nClear, nCart, nAdmin,
          nReq, paypalAuth, last>>

\* ------------------------------------------------------------------ helpers
Abs(x) == IF x < 0 THEN -x ELSE x

RECURSIVE SumSeq(_)
SumSeq(s) == IF s = <<>> THEN 0 ELSE Head(s) + SumSeq(Tail(s))

RECURSIVE FilterSeq(_, _)
FilterSeq(s, keep) ==
  IF s = <<>> THEN <<>>
  ELSE IF keep[Head(s).productId]
       THEN <<Head(s)>> \o FilterSeq(Tail(s), keep)
       ELSE FilterSeq(Tail(s), keep)

\* total quantity of product p over a list of line items
QtyOf(items, p) ==
  SumSeq([i \in 1..Len(items) |->
            IF items[i].productId = p THEN items[i].quantity ELSE 0])

\* an amount field as it arrives from a gateway: a number, absent, or a
\* value that does not parse as a number
NumAmount(v) == [kind |-> "num", v |-> v]
MissingAmount == [kind |-> "missing", v |-> 0]
GarbageAmount == [kind |-> "garbage", v |-> 0]
NoAmount == [kind |-> "unread", v |-> 0]

\* history record of a handler segment: handler, order it resolved, branch
\* taken, response ("none" while the request is still in flight), and the
\* gateway amount the handler compared (if it got that far)
\* gw: what the status query of this request returned (its status text),
\* "thrown" when the query failed, NoId when the request made no query
\* cur: the currency code the confirmation carried, NoId when it carried
\* none, NoCurrency when the request did not get to look at one
NoCurrency == "unread"

\* mail: what became of the order-confirmation e-mail of this request:
\* NoMail when the request did not get to send one
NoMail == "none"
MailOutcomes == {"sent", "failed"}

\* doc: the document this segment handed to Order.create, NoDocument when
\* it handed none
NoDocument == [none |-> TRUE]

\* retry: the request of this segment arrived right after a fulfilment
\* attempt for the same order had been rolled back
LastRetry(op, oid, act, resp, amt, gw, cur, retry) ==
  [op |-> op, oid |-> oid, act |-> act, resp |-> resp, amt |-> amt, gw |-> gw,
   cur |-> cur, retry |-> retry, mail |-> NoMail, doc |-> NoDocument]

LastCur(op, oid, act, resp, amt, gw, cur) ==
  LastRetry(op, oid, act, resp, amt, gw, cur, FALSE)

LastGw(op, oid, act, resp, amt, gw) == LastCur(op, oid, act, resp, amt, gw, NoCurrency)

LastAmt(op, oid, act, resp, amt) == LastGw(op, oid, act, resp, amt, NoId)

Last(op, oid, act, resp) == LastAmt(op, oid, act, resp, NoAmount)

\* variant: the e-mail step has no catch of its own, a throwing
\* sendOrderConfirmationEmail reaches the handler's outer catch and becomes
\* its error answer
SendOrderConfirmationEmailUncaught(l) ==
  {[l EXCEPT !.mail = "sent"], [l EXCEPT !.mail = "failed", !.resp = "error"]}

\* step 4 of a fulfilment: sendOrderConfirmationEmail inside its own
\* try/catch; it either sends or throws, a throw is logged and the handler
\* goes on to the answer it would have given anyway
SendOrderConfirmationEmail(l) ==
  {[l EXCEPT !.mail = m] : m \in MailOutcomes}

\* populate('items.productId'): a deleted product populates as null
Populated(p) == ~products[p].deleted

\* cart filter of getCart / createOrder: drop null and inactive references
ValidRef == [p \in Products |-> Populated(p) /\ products[p].active]

\* Array.prototype.findIndex over the cart items: first match, 0 for -1
IndexOfProduct(items, p) ==
  IF \E i \in 1..Len(items) : items[i].productId = p
  THEN CHOOSE i \in 1..Len(items) :
         /\ items[i].productId = p
         /\ \A j \in 1..(i - 1) : items[j].productId # p
  ELSE 0

\* ----------------------------------------------------------- request slots
\* requests are numbered in order of arrival: a new request takes the lowest
\* free slot
Idle(r) == reqs[r] = <<>> /\ \A q \in 1..(r - 1) : reqs[q] # <<>>

\* request r is in flight at position pc of its handler
Held(r, pc) == reqs[r] # <<>> /\ reqs[r][1].op = pc

\* no request is in flight
NoneInFlight == \A r \in ReqIds : reqs[r] = <<>>

\* the request suspends, keeping what it has loaded
Suspend(r, held) == reqs' = [reqs EXCEPT ![r] = <<held>>]

\* the request is answered and leaves
Answer(r) == reqs' = [reqs EXCEPT ![r] = <<>>]

\* ------------------------------------------------------------- order documents
ShippingOf(deliveryMethod) == IF deliveryMethod = "pickup" THEN 0 ELSE HomeShippingFee

\* variant: price and line total are taken from the cart item
OrderItemsFromCart(items, prods) ==
  [i \in 1..Len(items) |->
     [productId |-> items[i].productId,
      quantity  |-> items[i].quantity,
      price     |-> items[i].price,
      total     |-> items[i].price * items[i].quantity]]

\* line items built by the loop over the (sanitized) cart: price and line
\* total come from the populated product, not from the cart item.  prods is
\* the products as populated into the cart when it was read.
OrderItemsOf(items, prods) ==
  [i \in 1..Len(items) |->
     [productId |-> items[i].productId,
      quantity  |-> items[i].quantity,
      price     |-> prods[items[i].productId].price,
      total     |-> prods[items[i].productId].price * items[i].quantity]]

\* a document that has no orderNumber
NoNumber == 0

\* the document createOrder hands to Order.create: no orderNumber among its
\* fields.  manual is history: the number of direct payment-status writes.
NewOrder(u, items, prods, deliveryMethod) ==
  LET orderItems == OrderItemsOf(items, prods)
      subtotal == SumSeq([i \in 1..Len(orderItems) |-> orderItems[i].total])
      shipping == ShippingOf(deliveryMethod)
      tax == TaxAmount
  IN [userId |-> u,
      items |-> orderItems,
      subtotal |-> subtotal,
      shipping |-> shipping,
      tax |-> tax,
      total |-> subtotal + shipping + tax,
      paymentStatus |-> "pending",
      orderStatus |-> "pending",
      paymentId |-> NoId,
      manual |-> 0,
      orderNumber |-> NoNumber]

\* document validation of Order.create / save: orderNumber is required, and
\* validation runs before the pre-save hook that would derive it
Validate(doc) == doc.orderNumber # NoNumber

\* ----------------------------------------------------------------- Init
\* The Order collection as the handlers find it.  No request of this program
\* stores an order (createOrder is refused by validation), so the orders the
\* payment handlers work on are documents already in the collection; they
\* have the shape createOrder gives a document, with an order number.
CartItem(id, p, q, price) == [id |-> id, productId |-> p, quantity |-> q, price |-> price]

SeedCarts ==
  {<<CartItem(0, "p1", q, 10)>> : q \in 1..MaxQty}
    \cup {<<CartItem(0, "p1", 1, 10), CartItem(1, "p2", 1, 10)>>}

\* the slug of a product: the slug generateSlug derives from the product
\* name, with the suffix generateUniqueSlug appended to it.  Slug(name, 1) is
\* the base slug, Slug(name, n) for n > 1 the base slug followed by -n.
Slug(name, n) == <<name, n>>
NoSlug == <<>>

\* the products of the catalogue are named after their ids
LiveProduct(p) == [stock |-> InitStock, price |-> 10, active |-> TRUE,
                   deleted |-> FALSE, unused |-> FALSE, slug |-> Slug(p, 1)]

\* an id no product document has had yet
UnusedProduct == [stock |-> 0, price |-> 0, active |-> FALSE,
                  deleted |-> TRUE, unused |-> TRUE, slug |-> NoSlug]

\* an id whose document was removed
Gone == [UnusedProduct EXCEPT !.unused = FALSE]

AllLive == [p \in Products |-> LiveProduct(p)]

StoredOrder(u, items, n) ==
  [NewOrder(u, items, AllLive, "home") EXCEPT !.orderNumber = n]

\* a user has an empty cart or no cart document yet
NoCartItems ==
  /\ carts = [u \in Users |-> <<>>]
  /\ cartV \in [Users -> {NoCartDocument, 0}]

\* createOrder leaves the cart as it is: the cart of a buyer may still hold
\* the item it was given by the first addToCart
CartOfBuyer ==
  /\ carts = [u \in Users |-> <<CartItem(0, "p1", 1, 10)>>]
  /\ cartV = [u \in Users |-> 1]

\* every collection but products, orders and carts
InitRest ==
  /\ reqs = [r \in ReqIds |-> <<>>]
  /\ decd = [o \in OrderIds |-> [p \in Products |-> 0]]
  /\ restd = [o \in OrderIds |-> [p \in Products |-> 0]]
  /\ nClear = [o \in OrderIds |-> 0]
  /\ nAdmin = 0
  /\ nCart = 0
  /\ nReq = 0
  /\ paypalAuth = [accessToken |-> NoToken, tokenExpiry |-> 0, now |-> 0,
                   fetching |-> 0, issued |-> <<>>, overlap |-> FALSE]
  /\ last = LastRetry("init", NoOrder, "none", "none", NoAmount, NoId, NoCurrency,
                      FALSE)

\* n orders in the collection, every product in the catalogue
InitWith(n) ==
  /\ products = AllLive
  /\ \E carted \in [1..n -> SeedCarts] :
       orders = [o \in 1..n |-> StoredOrder("u1", carted[o], o)]
  /\ NoCartItems \/ CartOfBuyer
  /\ InitRest

Init == InitWith(MaxOrders)

\* no order in the collection; the second product id is not in use yet
InitCatalogue ==
  /\ products \in {AllLive, [AllLive EXCEPT !["p2"] = UnusedProduct]}
  /\ orders = <<>>
  /\ NoCartItems
  /\ InitRest

\* ------------------------------------------------------------ product admin
\* Each of the three administrator handlers awaits between its first query
\* and its write; an edit counts against MaxAdminOps when it arrives.
AdminFrame == <<carts, cartV, orders, decd, restd, nClear, nCart, paypalAuth>>

\* findByIdAndUpdate(id, updateData): every field the body carries is set
ApplyBody(doc, body) ==
  [f \in DOMAIN doc |-> IF f \in DOMAIN body THEN body[f] ELSE doc[f]]

\* updateProduct up to the update: Product.findById, answered 404 when there
\* is no such product
UpdateProductBegin(r, p, body) ==
  /\ Idle(r)
  /\ nAdmin < MaxAdminOps
  /\ nAdmin' = nAdmin + 1
  /\ IF products[p].deleted
     THEN /\ last' = Last("updateProduct", NoOrder, "none", "PRODUCT_NOT_FOUND")
          /\ Answer(r)
     ELSE /\ Suspend(r, [op |-> "updateProduct.update", p |-> p, body |-> body])
          /\ last' = Last("updateProduct", NoOrder, "product", "none")
  /\ UNCHANGED <<products, AdminFrame, nReq>>

\* variant: orders are priced through the product, a price change rewrites
\* the line items of the orders that contain the product
UpdateProductRepricing(r) ==
  LET h == reqs[r][1] IN
  /\ Held(r, "updateProduct.update")
  /\ ~products[h.p].deleted
  /\ products' = [products EXCEPT ![h.p] = ApplyBody(@, h.body)]
  /\ orders' = [o \in 1..Len(orders) |->
                  LET items == orders[o].items IN
                  [orders[o] EXCEPT !.items =
                     [i \in 1..Len(items) |->
                        IF items[i].productId = h.p /\ "price" \in DOMAIN h.body
                        THEN [items[i] EXCEPT !.price = h.body.price,
                                              !.total = h.body.price * items[i].quantity]
                        ELSE items[i]]]]
  /\ last' = Last("updateProduct", NoOrder, "updated", "200")
  /\ Answer(r)
  /\ UNCHANGED <<carts, cartV, decd, restd, nClear, nCart, paypalAuth, nAdmin, nReq>>

\* updateProduct from the update on: Product.findByIdAndUpdate looks the
\* product up again; a product deleted since the first query is answered 404
UpdateProductResume(r) ==
  LET h == reqs[r][1] IN
  /\ Held(r, "updateProduct.update")
  /\ IF products[h.p].deleted
     THEN /\ last' = Last("updateProduct", NoOrder, "none", "PRODUCT_NOT_FOUND")
          /\ UNCHANGED products
     ELSE /\ products' = [products EXCEPT ![h.p] = ApplyBody(@, h.body)]
          /\ last' = Last("updateProduct", NoOrder, "updated", "200")
  /\ Answer(r)
  /\ UNCHANGED <<AdminFrame, nAdmin, nReq>>

\* Product.findOne({ slug }) finds a document
SlugTaken(slug) ==
  \E p \in Products : ~products[p].deleted /\ products[p].slug = slug

\* Product.create rejected by the unique index on slug
DuplicateKey(op) == Last(op, NoOrder, "duplicate_key", "400")

\* one query of generateUniqueSlug for the slug with suffix n: a free slug
\* is returned to createProduct, which goes on to Product.create; a taken
\* one sends the loop to the next suffix
QuerySlug(r, body, n) ==
  IF SlugTaken(Slug(body.name, n))
  THEN Suspend(r, [op |-> "createProduct.slug", body |-> body, counter |-> n + 1])
  ELSE Suspend(r, [op |-> "createProduct.create", body |-> body,
                   slug |-> Slug(body.name, n)])

\* createProduct up to the answer to the first slug query: the body is
\* checked and generateProductSlug asks for the base slug
CreateProductBegin(r, body) ==
  /\ Idle(r)
  /\ nAdmin < MaxAdminOps
  /\ nAdmin' = nAdmin + 1
  /\ "name" \in DOMAIN body
  /\ QuerySlug(r, body, 1)
  /\ last' = Last("createProduct", NoOrder, "slug", "none")
  /\ UNCHANGED <<products, AdminFrame, nReq>>

\* createProduct from there on: the later queries of generateUniqueSlug, and
\* Product.create with the slug the loop returned; stock defaults to 0 and
\* active to true.  The unique index on slug rejects the insert when a
\* product with that slug was inserted since the query (duplicate key, 400).
\* The new document gets an id p no document has had.
CreateProductResume(r, p) ==
  LET h == reqs[r][1] IN
  /\ reqs[r] # <<>>
  /\ h.op \in {"createProduct.slug", "createProduct.create"}
  /\ IF h.op = "createProduct.slug"
     THEN /\ QuerySlug(r, h.body, h.counter)
          /\ last' = Last("createProduct", NoOrder, "slug", "none")
          /\ UNCHANGED products
     ELSE IF SlugTaken(h.slug)
     THEN /\ last' = DuplicateKey("createProduct")
          /\ Answer(r)
          /\ UNCHANGED products
     ELSE /\ products[p].unused
          /\ products' = [products EXCEPT ![p] =
                            ApplyBody([stock |-> 0, price |-> 0, active |-> TRUE,
                                       deleted |-> FALSE, unused |-> FALSE,
                                       slug |-> h.slug], h.body)]
          /\ last' = Last("createProduct", NoOrder, "created", "201")
          /\ Answer(r)
  /\ UNCHANGED <<AdminFrame, nAdmin, nReq>>

\* deleteProduct up to the delete: Product.findById, answered 404 when there
\* is no such product
DeleteProductBegin(r, p) ==
  /\ Idle(r)
  /\ nAdmin < MaxAdminOps
  /\ nAdmin' = nAdmin + 1
  /\ IF products[p].deleted
     THEN /\ last' = Last("deleteProduct", NoOrder, "none", "PRODUCT_NOT_FOUND")
          /\ Answer(r)
     ELSE /\ Suspend(r, [op |-> "deleteProduct.delete", p |-> p])
          /\ last' = Last("deleteProduct", NoOrder, "product", "none")
  /\ UNCHANGED <<products, AdminFrame, nReq>>

\* deleteProduct from the delete on: Product.findByIdAndDelete, whose result
\* is not looked at; the request is answered 200 also when another request
\* removed the document in between
DeleteProductResume(r) ==
  LET h == reqs[r][1] IN
  /\ Held(r, "deleteProduct.delete")
  /\ products' = [products EXCEPT ![h.p] = IF @.deleted THEN @ ELSE Gone]
  /\ last' = Last("deleteProduct", NoOrder, "deleted", "200")
  /\ Answer(r)
  /\ UNCHANGED <<AdminFrame, nAdmin, nReq>>

\* --------------------------------------------------------------------- cart
\* cart.save() sends what the handler changed on the document it loaded:
\*   items.push(x)            -> $push, increments __v, no version condition
\*   items.pull(id)           -> $pull, increments __v, no version condition
\*   items[i].quantity = n    -> $set items.i.quantity, conditioned on __v
\*   items = [...]            -> $set items, conditioned on __v, increments __v
\* An assignment of the value the path already has on the loaded document
\* does not modify it, and a path that is not modified is not sent.
\* A save whose version condition meets another __v fails (VersionError) and
\* the error handler answers 500.
\* A user has no cart document until getCart or addToCart creates one;
\* userId is a unique index, a second Cart.create for the same user fails
\* with a duplicate-key error, which the error handler answers with 400.

\* what no cart handler touches
CartFrame == <<products, orders, decd, restd, nClear, nAdmin, nReq, paypalAuth>>

VersionError(op) == Last(op, NoOrder, "version_error", "500")

CartNotFound(op) == Last(op, NoOrder, "none", "CART_NOT_FOUND")

\* Cart.findOne({ userId }) found a document
HasCart(u) == cartV[u] # NoCartDocument

\* Cart.create({ userId, items: [] })
CreateCart(u) ==
  /\ carts' = [carts EXCEPT ![u] = <<>>]
  /\ cartV' = [cartV EXCEPT ![u] = 0]

\* $push
SavePush(u, p, q, price) ==
  /\ carts' = [carts EXCEPT ![u] = Append(@, CartItem(cartV[u], p, q, price))]
  /\ cartV' = [cartV EXCEPT ![u] = @ + 1]

\* $pull by the _id of the item
SavePull(u, id) ==
  /\ carts' = [carts EXCEPT ![u] = SelectSeq(@, LAMBDA it : it.id # id)]
  /\ cartV' = [cartV EXCEPT ![u] = @ + 1]

\* $set on the fields of the item at position i of the loaded document:
\* of quantity and price, those whose new value differs from the loaded one
SaveSetAt(u, i, loaded, q, price) ==
  LET stored == carts[u][i] IN
  /\ carts' = [carts EXCEPT ![u][i] =
                 [stored EXCEPT
                    !.quantity = IF q # loaded.quantity THEN q ELSE stored.quantity,
                    !.price = IF price # loaded.price THEN price ELSE stored.price]]
  /\ UNCHANGED cartV

\* $set of the whole array
SaveItems(u, items) ==
  /\ carts' = [carts EXCEPT ![u] = items]
  /\ cartV' = [cartV EXCEPT ![u] = @ + 1]

\* addToCart up to Cart.findOne: the product is read and checked
AddToCartBegin(r, u, p, q) ==
  LET prod == products[p] IN
  /\ Idle(r)
  /\ nCart < MaxCartOps
  /\ nCart' = nCart + 1
  /\ IF prod.deleted \/ ~prod.active
     THEN /\ last' = Last("addToCart", NoOrder, "none", "PRODUCT_NOT_FOUND")
          /\ Answer(r)
     ELSE IF prod.stock < q
     THEN /\ last' = Last("addToCart", NoOrder, "none", "INSUFFICIENT_STOCK")
          /\ Answer(r)
     ELSE /\ Suspend(r, [op |-> "addToCart.cart", u |-> u, p |-> p, q |-> q,
                         product |-> prod])
          /\ last' = Last("addToCart", NoOrder, "product", "none")
  /\ UNCHANGED <<carts, cartV, CartFrame>>

\* what addToCart does with the cart it holds: the item is merged into the
\* line of the same product or pushed; then the save
MergeIntoCart(r, h, items, v) ==
  LET idx == IndexOfProduct(items, h.p) IN
  IF idx > 0 /\ h.product.stock < items[idx].quantity + h.q
  THEN /\ last' = Last("addToCart", NoOrder, "none", "INSUFFICIENT_STOCK")
       /\ Answer(r)
  ELSE /\ Suspend(r, [op |-> "addToCart.save", u |-> h.u, p |-> h.p, idx |-> idx,
                       item |-> IF idx > 0 THEN items[idx]
                                ELSE CartItem(0, h.p, 0, 0),
                       q |-> IF idx > 0 THEN items[idx].quantity + h.q ELSE h.q,
                       price |-> h.product.price, v |-> v])
       /\ last' = Last("addToCart", NoOrder, "cart", "none")

\* addToCart from Cart.findOne on: the cart is read, or created when the
\* user has none; the item is merged or pushed; then the save
AddToCartResume(r) ==
  LET h == reqs[r][1] IN
  /\ reqs[r] # <<>>
  /\ h.op \in {"addToCart.cart", "addToCart.create", "addToCart.save"}
  /\ IF h.op = "addToCart.cart"
     THEN /\ IF HasCart(h.u)
             THEN MergeIntoCart(r, h, carts[h.u], cartV[h.u])
             ELSE /\ Suspend(r, [h EXCEPT !.op = "addToCart.create"])
                  /\ last' = Last("addToCart", NoOrder, "cart", "none")
          /\ UNCHANGED <<carts, cartV>>
     ELSE IF h.op = "addToCart.create"
     THEN IF HasCart(h.u)
          THEN /\ last' = DuplicateKey("addToCart")
               /\ Answer(r)
               /\ UNCHANGED <<carts, cartV>>
          ELSE /\ CreateCart(h.u)
               /\ MergeIntoCart(r, h, <<>>, 0)
     ELSE /\ IF h.idx = 0
             THEN /\ SavePush(h.u, h.p, h.q, h.price)
                  /\ last' = Last("addToCart", NoOrder, "added", "200")
             ELSE IF cartV[h.u] # h.v
             THEN /\ last' = VersionError("addToCart")
                  /\ UNCHANGED <<carts, cartV>>
             ELSE /\ SaveSetAt(h.u, h.idx, h.item, h.q, h.price)
                  /\ last' = Last("addToCart", NoOrder, "updated", "200")
          /\ Answer(r)
  /\ UNCHANGED <<nCart, CartFrame>>

\* updateCartItem up to Product.findById: the cart is read, the item looked
\* up by its _id (here: its position in the cart as read)
UpdateCartItemBegin(r, u, i, q) ==
  LET items == carts[u] IN
  /\ Idle(r)
  /\ nCart < MaxCartOps
  /\ nCart' = nCart + 1
  /\ IF ~HasCart(u)
     THEN /\ last' = CartNotFound("updateCartItem")
          /\ Answer(r)
     ELSE IF i \notin 1..Len(items)
     THEN /\ last' = Last("updateCartItem", NoOrder, "none", "ITEM_NOT_FOUND")
          /\ Answer(r)
     ELSE /\ Suspend(r, [op |-> "updateCartItem.product", u |-> u, idx |-> i,
                         q |-> q, item |-> items[i], v |-> cartV[u]])
          /\ last' = Last("updateCartItem", NoOrder, "cart", "none")
  /\ UNCHANGED <<carts, cartV, CartFrame>>

\* updateCartItem from Product.findById on: product checks, then the save
\* (which sends nothing when neither quantity nor price differs)
UpdateCartItemResume(r) ==
  LET h == reqs[r][1] IN
  /\ reqs[r] # <<>>
  /\ h.op \in {"updateCartItem.product", "updateCartItem.save"}
  /\ IF h.op = "updateCartItem.product"
     THEN LET prod == products[h.item.productId] IN
          /\ IF prod.deleted \/ ~prod.active
             THEN /\ last' = Last("updateCartItem", NoOrder, "none", "PRODUCT_NOT_FOUND")
                  /\ Answer(r)
             ELSE IF prod.stock < h.q
             THEN /\ last' = Last("updateCartItem", NoOrder, "none", "INSUFFICIENT_STOCK")
                  /\ Answer(r)
             ELSE /\ Suspend(r, [op |-> "updateCartItem.save", u |-> h.u,
                                 idx |-> h.idx, item |-> h.item,
                                 q |-> h.q, price |-> prod.price,
                                 modified |-> (h.q # h.item.quantity
                                                 \/ prod.price # h.item.price),
                                 v |-> h.v])
                  /\ last' = Last("updateCartItem", NoOrder, "product", "none")
          /\ UNCHANGED <<carts, cartV>>
     ELSE /\ IF ~h.modified
             THEN /\ last' = Last("updateCartItem", NoOrder, "updated", "200")
                  /\ UNCHANGED <<carts, cartV>>
             ELSE IF cartV[h.u] # h.v
             THEN /\ last' = VersionError("updateCartItem")
                  /\ UNCHANGED <<carts, cartV>>
             ELSE /\ SaveSetAt(h.u, h.idx, h.item, h.q, h.price)
                  /\ last' = Last("updateCartItem", NoOrder, "updated", "200")
          /\ Answer(r)
  /\ UNCHANGED <<nCart, CartFrame>>

\* removeFromCart up to the save: the cart is read, the item looked up
RemoveFromCartBegin(r, u, i) ==
  LET items == carts[u] IN
  /\ Idle(r)
  /\ nCart < MaxCartOps
  /\ nCart' = nCart + 1
  /\ IF ~HasCart(u)
     THEN /\ last' = CartNotFound("removeFromCart")
          /\ Answer(r)
     ELSE IF i \notin 1..Len(items)
     THEN /\ last' = Last("removeFromCart", NoOrder, "none", "ITEM_NOT_FOUND")
          /\ Answer(r)
     ELSE /\ Suspend(r, [op |-> "removeFromCart.save", u |-> u, id |-> items[i].id])
          /\ last' = Last("removeFromCart", NoOrder, "cart", "none")
  /\ UNCHANGED <<carts, cartV, CartFrame>>

RemoveFromCartResume(r) ==
  LET h == reqs[r][1] IN
  /\ Held(r, "removeFromCart.save")
  /\ SavePull(h.u, h.id)
  /\ last' = Last("removeFromCart", NoOrder, "removed", "200")
  /\ Answer(r)
  /\ UNCHANGED <<nCart, CartFrame>>

\* clearCart up to the save; an empty cart is not modified and not written
ClearCartBegin(r, u) ==
  /\ Idle(r)
  /\ nCart < MaxCartOps
  /\ nCart' = nCart + 1
  /\ IF ~HasCart(u)
     THEN /\ last' = CartNotFound("clearCart")
          /\ Answer(r)
     ELSE /\ Suspend(r, [op |-> "clearCart.save", u |-> u,
                         modified |-> carts[u] # <<>>, v |-> cartV[u]])
          /\ last' = Last("clearCart", NoOrder, "cart", "none")
  /\ UNCHANGED <<carts, cartV, CartFrame>>

ClearCartResume(r) ==
  LET h == reqs[r][1] IN
  /\ Held(r, "clearCart.save")
  /\ IF ~h.modified
     THEN /\ last' = Last("clearCart", NoOrder, "cleared", "200")
          /\ UNCHANGED <<carts, cartV>>
     ELSE IF cartV[h.u] # h.v
     THEN /\ last' = VersionError("clearCart")
          /\ UNCHANGED <<carts, cartV>>
     ELSE /\ SaveItems(h.u, <<>>)
          /\ last' = Last("clearCart", NoOrder, "cleared", "200")
  /\ Answer(r)
  /\ UNCHANGED <<nCart, CartFrame>>

\* getCart up to the second query: Cart.findOne answers the cart document.
\* A user without one gets it created next; the products of a cart with
\* items are populated by a query of their own; an empty cart has nothing
\* to populate or filter and is answered as it is.
GetCartBegin(r, u) ==
  /\ Idle(r)
  /\ nCart < MaxCartOps
  /\ nCart' = nCart + 1
  /\ IF ~HasCart(u)
     THEN /\ Suspend(r, [op |-> "getCart.create", u |-> u])
          /\ last' = Last("getCart", NoOrder, "cart", "none")
     ELSE IF carts[u] = <<>>
     THEN /\ last' = Last("getCart", NoOrder, "read", "200")
          /\ Answer(r)
     ELSE /\ Suspend(r, [op |-> "getCart.populate", u |-> u, items |-> carts[u],
                         v |-> cartV[u]])
          /\ last' = Last("getCart", NoOrder, "cart", "none")
  /\ UNCHANGED <<carts, cartV, CartFrame>>

\* getCart from its second query on: Cart.create, or the populate query
\* with the filter, and the save of a cart that lost items
GetCartResume(r) ==
  LET h == reqs[r][1] IN
  /\ reqs[r] # <<>>
  /\ h.op \in {"getCart.create", "getCart.populate", "getCart.save"}
  /\ IF h.op = "getCart.create"
     THEN /\ IF HasCart(h.u)
             THEN /\ last' = DuplicateKey("getCart")
                  /\ UNCHANGED <<carts, cartV>>
             ELSE /\ CreateCart(h.u)
                  /\ last' = Last("getCart", NoOrder, "created", "200")
          /\ Answer(r)
     ELSE IF h.op = "getCart.populate"
     THEN LET validItems == FilterSeq(h.items, ValidRef) IN
          /\ IF Len(validItems) = Len(h.items)
             THEN /\ last' = Last("getCart", NoOrder, "read", "200")
                  /\ Answer(r)
             ELSE /\ Suspend(r, [op |-> "getCart.save", u |-> h.u,
                                 items |-> validItems, v |-> h.v])
                  /\ last' = Last("getCart", NoOrder, "product", "none")
          /\ UNCHANGED <<carts, cartV>>
     ELSE /\ IF cartV[h.u] # h.v
             THEN /\ last' = VersionError("getCart")
                  /\ UNCHANGED <<carts, cartV>>
             ELSE /\ SaveItems(h.u, h.items)
                  /\ last' = Last("getCart", NoOrder, "sanitized", "200")
          /\ Answer(r)
  /\ UNCHANGED <<nCart, CartFrame>>

\* ------------------------------------------------------------- createOrder
\* what a request of the payment and order handlers leaves alone at its
\* first and at its later segments
BeginFrame == <<restd, paypalAuth, nCart, nAdmin>>
ResumeFrame == <<restd, paypalAuth, nCart, nAdmin, nReq>>

\* the stock loop of createOrder over the populated cart items
Short(items, prods) ==
  \E i \in 1..Len(items) : prods[items[i].productId].stock < items[i].quantity

\* SM + the last six digits of the clock + the order count plus one, padded
\* to four digits; the text is kept as the number its digits spell
OrderNumber(now, count) == (now % TimestampModulus) * CountPad + (count + 1)

\* the pre-save hook: a new document without a number gets one derived from
\* the clock and the order count
PreSave(doc, isNew, now, count) ==
  IF isNew /\ doc.orderNumber = NoNumber
  THEN [doc EXCEPT !.orderNumber = OrderNumber(now, count)]
  ELSE doc

\* variant: the stock of the ordered products is reserved when the order is
\* handed to Order.create
PlaceOrderReserving(u, items, prods, deliveryMethod) ==
  LET doc == NewOrder(u, items, prods, deliveryMethod) IN
  IF Short(items, prods)
  THEN /\ last' = Last("createOrder", NoOrder, "none", "INSUFFICIENT_STOCK")
       /\ UNCHANGED <<orders, products>>
  ELSE /\ products' = [p \in Products |->
                        [products[p] EXCEPT !.stock = @ - QtyOf(items, p)]]
       /\ last' = [Last("createOrder", NoOrder, "invalid", "400") EXCEPT !.doc = doc]
       /\ UNCHANGED orders

\* createOrder from the stock loop on: the loop works on the products as
\* populated when the cart was read; Order.create validates the document it
\* is given, and only a valid document goes through the pre-save hook and is
\* inserted
PlaceOrder(u, items, prods, deliveryMethod) ==
  LET doc == NewOrder(u, items, prods, deliveryMethod) IN
  /\ UNCHANGED products
  /\ IF Short(items, prods)
     THEN /\ last' = Last("createOrder", NoOrder, "none", "INSUFFICIENT_STOCK")
          /\ UNCHANGED orders
     ELSE IF ~Validate(doc)
     THEN /\ last' = [Last("createOrder", NoOrder, "invalid", "400") EXCEPT !.doc = doc]
          /\ UNCHANGED orders
     ELSE /\ orders' = Append(orders, PreSave(doc, TRUE, paypalAuth.now, Len(orders)))
          /\ last' = [Last("createOrder", Len(orders) + 1, "created", "201")
                        EXCEPT !.doc = doc]

\* createOrder up to the second query: Cart.findOne answers the cart
\* document; without a document or without items the request is refused,
\* otherwise the products of the items are populated by a query of their own
CreateOrderBegin(r, u, deliveryMethod) ==
  /\ Idle(r)
  /\ IF ~HasCart(u) \/ carts[u] = <<>>
     THEN /\ last' = Last("createOrder", NoOrder, "none", "EMPTY_CART")
          /\ Answer(r)
     ELSE /\ Suspend(r, [op |-> "createOrder.populate", u |-> u, items |-> carts[u],
                         v |-> cartV[u], deliveryMethod |-> deliveryMethod])
          /\ last' = Last("createOrder", NoOrder, "cart", "none")
  /\ UNCHANGED <<products, carts, cartV, orders, decd, nClear, BeginFrame>>

\* createOrder from the populate query on: the items are filtered by the
\* products as populated.  A cart that loses items is saved before anything
\* else happens; a cart that loses none goes on to the stock loop at once.
\* read: the items of the cart as the request read them.
CreateOrderResume(r) ==
  LET h == reqs[r][1] IN
  /\ reqs[r] # <<>>
  /\ h.op \in {"createOrder.populate", "createOrder.save"}
  /\ IF h.op = "createOrder.populate"
     THEN LET validCartItems == FilterSeq(h.items, ValidRef) IN
          /\ IF Len(validCartItems) # Len(h.items)
             THEN /\ Suspend(r, [op |-> "createOrder.save", u |-> h.u,
                                 items |-> validCartItems, prods |-> products,
                                 v |-> h.v, deliveryMethod |-> h.deliveryMethod,
                                 read |-> h.items])
                  /\ last' = Last("createOrder", NoOrder, "product", "none")
                  /\ UNCHANGED <<orders, products>>
             ELSE /\ PlaceOrder(h.u, validCartItems, products, h.deliveryMethod)
                  /\ Answer(r)
          /\ UNCHANGED <<carts, cartV>>
     ELSE /\ IF cartV[h.u] # h.v
             THEN /\ last' = VersionError("createOrder")
                  /\ UNCHANGED <<carts, cartV, orders, products>>
             ELSE /\ SaveItems(h.u, h.items)
                  /\ IF h.items = <<>>
                     THEN /\ last' = Last("createOrder", NoOrder, "sanitized", "CART_CORRUPTED")
                          /\ UNCHANGED <<orders, products>>
                     ELSE PlaceOrder(h.u, h.items, h.prods, h.deliveryMethod)
          /\ Answer(r)
  /\ UNCHANGED <<decd, nClear, ResumeFrame>>

\* ------------------------------------------------- gateway-reported values
NaN == [nan |-> TRUE, v |-> 0]

\* parseFloat(x || 0): an absent amount becomes 0, an unparsable one NaN
ParseFloatOrZero(a) ==
  IF a.kind = "garbage" THEN NaN ELSE [nan |-> FALSE, v |-> a.v]

\* Math.abs(paid - total) > 0.01; every comparison with NaN is false
ExceedsTolerance(paid, total) ==
  /\ ~paid.nan
  /\ Abs(paid.v - total) * CentsPerUnit > ToleranceCents

\* payment_status_description as the gateway may spell it
StatusInputs == {"COMPLETED", "Completed", "FAILED", "Failed", "PENDING"}

\* the upper-case form of the status texts that are not upper case already
UpperCased ==
  [Completed |-> "COMPLETED", completed |-> "COMPLETED",
   Failed |-> "FAILED", failed |-> "FAILED",
   Pending |-> "PENDING", pending |-> "PENDING",
   Invalid |-> "INVALID", invalid |-> "INVALID",
   Reversed |-> "REVERSED", reversed |-> "REVERSED"]

\* variant: whatever the query returned is read as completed
ReadAsCompleted(s) == "COMPLETED"

\* String.prototype.toUpperCase
ToUpperCase(s) == IF s \in DOMAIN UpperCased THEN UpperCased[s] ELSE s

AmountInputs(total) ==
  {NumAmount(total), NumAmount(total + 1), MissingAmount, GarbageAmount}

CurrencyInputs == {"USD", "KES", NoId}

\* --------------------------------------------------------- order lookups
\* Order.findOne({ _id, userId })
FindOwn(u, oid) ==
  IF oid \in 1..Len(orders) /\ orders[oid].userId = u THEN oid ELSE NoOrder

\* Order.findById(id)
FindById(oid) == IF oid \in 1..Len(orders) THEN oid ELSE NoOrder

\* Order.findOne({ orderNumber }): the first order carrying that number
FindByOrderNumber(ref) ==
  IF \E i \in 1..Len(orders) : orders[i].orderNumber = ref
  THEN CHOOSE i \in 1..Len(orders) :
         /\ orders[i].orderNumber = ref
         /\ \A j \in 1..(i - 1) : orders[j].orderNumber # ref
  ELSE NoOrder

\* a stored document carries the PayPal order id ppid; orderSchema declares
\* no path paypalOrderId, so no document the program stores carries one
HasPayPalOrderId(doc, ppid) ==
  "paypalOrderId" \in DOMAIN doc /\ doc["paypalOrderId"] = ppid

\* Order.findOne({ paypalOrderId }): the first order carrying that id
\* (strictQuery is off, the condition stays in the filter)
FindByPayPalOrderId(ppid) ==
  IF \E i \in 1..Len(orders) : HasPayPalOrderId(orders[i], ppid)
  THEN CHOOSE i \in 1..Len(orders) :
         /\ HasPayPalOrderId(orders[i], ppid)
         /\ \A j \in 1..(i - 1) : ~HasPayPalOrderId(orders[j], ppid)
  ELSE NoOrder

\* --------------------------------------------------------- document saves
\* order.save(): only the paths assigned a different value since the document
\* was loaded are written
SaveDoc(stored, loaded, doc) ==
  [stored EXCEPT
     !.paymentStatus = IF doc.paymentStatus # loaded.paymentStatus
                       THEN doc.paymentStatus ELSE @,
     !.orderStatus   = IF doc.orderStatus # loaded.orderStatus
                       THEN doc.orderStatus ELSE @,
     !.paymentId     = IF doc.paymentId # loaded.paymentId
                       THEN doc.paymentId ELSE @]

\* variant: the stock loop writes a value computed from a stock figure read
\* before any other request changed it, instead of incrementing in place
IncStockFromStaleRead(prods, p, n) ==
  IF prods[p].deleted THEN prods ELSE [prods EXCEPT ![p].stock = InitStock + n]

\* Product.findByIdAndUpdate(id, {$inc: {stock: n}}): no validators run, a
\* deleted product matches nothing
IncStock(prods, p, n) ==
  IF prods[p].deleted THEN prods ELSE [prods EXCEPT ![p].stock = @ + n]

RECURSIVE IncStockAll(_, _, _)
IncStockAll(prods, items, sign) ==
  IF items = <<>> THEN prods
  ELSE IncStockAll(IncStock(prods, Head(items).productId, sign * Head(items).quantity),
                   Tail(items), sign)

\* quantity actually moved on product p by a stock loop over items
Moved(items, p) == IF products[p].deleted THEN 0 ELSE QtyOf(items, p)

AddMoved(hist, oid, items) ==
  [hist EXCEPT ![oid] = [p \in Products |-> @[p] + Moved(items, p)]]

\* if (cart): cart.items = [] on the cart as read inside the transaction,
\* then cart.save(); a cart that was empty already is not written, and a
\* user without cart document stays without
ClearedCart(u) ==
  /\ carts' = [carts EXCEPT ![u] = <<>>]
  /\ cartV' = [cartV EXCEPT ![u] = IF carts[u] = <<>> THEN @ ELSE @ + 1]

\* the fulfilment transaction: order save, stock loop and cart clear commit
\* together
CommitFulfilment(oid, loaded, doc) ==
  /\ orders' = [orders EXCEPT ![oid] = SaveDoc(@, loaded, doc)]
  /\ products' = IncStockAll(products, doc.items, -1)
  /\ ClearedCart(doc.userId)
  /\ decd' = AddMoved(decd, oid, doc.items)
  /\ nClear' = [nClear EXCEPT ![oid] = @ + 1]

SaveOnly(oid, loaded, doc) ==
  /\ orders' = [orders EXCEPT ![oid] = SaveDoc(@, loaded, doc)]
  /\ UNCHANGED <<products, carts, cartV, decd, nClear>>

NoWrite == UNCHANGED <<products, carts, cartV, orders, decd, nClear>>

\* variant: a failed gateway call is recorded as a failed payment
GatewayErrorMarksFailed(ref) ==
  IF ref \in 1..Len(orders)
  THEN SaveOnly(ref, orders[ref], [orders[ref] EXCEPT !.paymentStatus = "failed"])
  ELSE NoWrite

\* a gateway call that throws ends in the handler's catch: the error is
\* answered and nothing is written for the order the request refers to
OnGatewayError(ref) == NoWrite

\* session.abortTransaction(): nothing the attempt wrote in its session (the
\* order save, the stock decrements, the cart clear) is kept
AbortFulfilment(oid, loaded, doc) == NoWrite

\* the idempotence gate: if (order.paymentStatus === 'paid') return
AlreadyPaid(doc) == doc.paymentStatus = "paid"

\* the PayPal handlers: order.orderStatus = 'confirmed' whatever it was
MarkPaidConfirmed(doc, pid) ==
  [doc EXCEPT !.paymentStatus = "paid", !.orderStatus = "confirmed", !.paymentId = pid]

MarkPaid(doc, pid) ==
  [doc EXCEPT !.paymentStatus = "paid",
              !.orderStatus = IF @ = "pending" THEN "confirmed" ELSE @,
              !.paymentId = pid]

\* the request arrives right after a fulfilment attempt for the order it
\* resolves to was rolled back
AfterAbort(oid) == last.act = "aborted" /\ last.oid = oid

\* ------------------------------------------------------- initiatePayment
\* initiatePayment up to submitOrder: the order is read and the guards run
InitiatePaymentBegin(r, u, oid) ==
  LET o == FindOwn(u, oid) IN
  /\ Idle(r)
  /\ IF o = NoOrder
     THEN /\ last' = Last("initiatePayment", NoOrder, "none", "ORDER_NOT_FOUND")
          /\ Answer(r)
     ELSE IF orders[o].paymentStatus = "paid"
     THEN /\ last' = Last("initiatePayment", o, "none", "ALREADY_PAID")
          /\ Answer(r)
     ELSE IF orders[o].orderStatus = "cancelled"
     THEN /\ last' = Last("initiatePayment", o, "none", "ORDER_CANCELLED")
          /\ Answer(r)
     ELSE /\ Suspend(r, [op |-> "initiatePayment.submit", oid |-> o,
                         loaded |-> orders[o]])
          /\ last' = Last("initiatePayment", o, "loaded", "none")
  /\ NoWrite
  /\ UNCHANGED BeginFrame

\* initiatePayment after submitOrder returned: the tracking id and
\* paymentStatus processing are assigned to the document read before and saved
InitiatePaymentResume(r, tid, gwFail) ==
  LET h == reqs[r][1] IN
  /\ Held(r, "initiatePayment.submit")
  /\ IF gwFail
     THEN /\ last' = Last("initiatePayment", h.oid, "none", "500")
          /\ NoWrite
     ELSE /\ SaveOnly(h.oid, h.loaded,
                      [h.loaded EXCEPT !.paymentId = tid,
                                       !.paymentStatus = "processing"])
          /\ last' = Last("initiatePayment", h.oid, "initiated", "200")
  /\ Answer(r)
  /\ UNCHANGED ResumeFrame

\* ------------------------------------------- paypalService.getAccessToken
\* Times are in minutes: the 300 seconds the service subtracts are
\* RefreshMargin, the 32400 seconds it assumes for a response without
\* expires_in are DefaultExpiresIn.
RefreshMargin == 5
DefaultExpiresIn == 540

\* expires_in of a token response; 0 stands for a response that carries none
ExpiresInInputs == {0, 3, 7}

\* how a token request ends: with a token, rejected, or with a response that
\* carries no access_token
FetchOutcomes == {"token", "rejected", "no_token"}

\* accessToken && tokenExpiry && Date.now() < tokenExpiry
CacheValid ==
  /\ paypalAuth.accessToken # NoToken
  /\ paypalAuth.tokenExpiry # 0
  /\ paypalAuth.now < paypalAuth.tokenExpiry

\* variant: the expiry is stored without the five minutes taken off
TokenExpiryNoMargin(now, expiresIn) == now + expiresIn

\* tokenExpiry = Date.now() + (expiresIn - 300) * 1000
TokenExpiry(now, expiresIn) == now + (expiresIn - RefreshMargin)

\* time passes
ClockTick ==
  /\ paypalAuth.now < MaxClock
  /\ paypalAuth' = [paypalAuth EXCEPT !.now = @ + 1]
  /\ last' = Last("clock", NoOrder, "tick", "none")
  /\ UNCHANGED <<products, carts, cartV, orders, reqs, decd, restd, nClear, nCart,
                 nAdmin, nReq>>

\* getAccessToken up to the token request: a valid cached token is returned
\* at once and the cache stays as it is, otherwise the call awaits axios.post
GetAccessTokenBegin ==
  paypalAuth' = IF CacheValid THEN paypalAuth
                ELSE [paypalAuth EXCEPT !.fetching = @ + 1]

\* the cache after a token response that carries a token
StoreToken(auth, expires_in) ==
  LET expiresIn == IF expires_in = 0 THEN DefaultExpiresIn ELSE expires_in IN
  [auth EXCEPT !.accessToken = Len(auth.issued) + 1,
               !.tokenExpiry = TokenExpiry(auth.now, expiresIn),
               !.issued = Append(@, auth.now + expiresIn),
               !.overlap = @ \/ auth.fetching > 1]

\* getAccessToken after the token request: a rejected request or a response
\* without access_token is logged and thrown on; a token is stored together
\* with its expiry and returned
GetAccessTokenResume(outcome, expires_in) ==
  paypalAuth' =
    IF outcome # "token"
    THEN [paypalAuth EXCEPT !.fetching = @ - 1]
    ELSE [StoreToken(paypalAuth, expires_in) EXCEPT !.fetching = @ - 1]

\* the position at which a caller of getAccessToken goes on: with the token
\* request in flight, or past it
AfterTokenCheck(handler) ==
  IF CacheValid THEN handler \o ".call" ELSE handler \o ".token"

\* ------------------------------------------- routes without a schema
\* validate(schema) returns a middleware that calls schema.validate(body).
\* Neither schemas object has an entry createPayPalOrder or
\* capturePayPalPayment, so on these two routes schema is undefined: the
\* middleware throws a TypeError on every request, the error handler
\* answers 500, and the handler behind the middleware is not called.
ValidateWithoutSchema(r, op) ==
  /\ Idle(r)
  /\ Answer(r)
  /\ last' = Last(op, NoOrder, "none", "500")
  /\ NoWrite
  /\ UNCHANGED BeginFrame

\* POST /api/payments/paypal/create
CreatePayPalOrderRoute(r) == ValidateWithoutSchema(r, "createPayPalOrder")

\* POST /api/payments/paypal/capture
CapturePayPalPaymentRoute(r) == ValidateWithoutSchema(r, "capture")

\* ------------------------------------------------------- pesapalCallback
\* order numbers a callback or notification may carry: those of the stored
\* orders and one that no order has
Refs == 1..(Len(orders) + 1)

\* what the status query of the gateway returns next to the status text and
\* the amount: the currency code of the payment.  Neither handler reads it.
\* Payments are submitted to this gateway in PesapalCurrency.
PesapalCurrency == "KES"

\* pesapalCallback up to the status query: the order is read by its number
\* and the gate is tested
PesapalCallbackBegin(r, tid, ref) ==
  LET o == FindByOrderNumber(ref) IN
  /\ Idle(r)
  /\ IF tid = NoId
     THEN /\ last' = Last("callback", NoOrder, "none", "error")
          /\ Answer(r)
     ELSE IF o = NoOrder
     THEN /\ last' = Last("callback", NoOrder, "not_found", "error")
          /\ Answer(r)
     ELSE IF AlreadyPaid(orders[o])
     THEN /\ last' = LastRetry("callback", o, "already_paid", "success", NoAmount,
                               NoId, NoCurrency, AfterAbort(o))
          /\ Answer(r)
     ELSE /\ Suspend(r, [op |-> "callback.query", oid |-> o, loaded |-> orders[o],
                         tid |-> tid, retry |-> AfterAbort(o)])
          /\ last' = Last("callback", o, "loaded", "none")
  /\ NoWrite
  /\ UNCHANGED BeginFrame

\* the part of the callback after the order was loaded and found not paid:
\* status query, amount check, fulfilment transaction or status update
CallbackFinish(oid, loaded, tid, status, amt, cur, gwFail, txFail, retry) ==
  LET statusUpper == ToUpperCase(status)
      paidAmount == ParseFloatOrZero(amt)
      redirect == IF status = "COMPLETED" THEN "success" ELSE "failed"
      Rec(act, resp, a, gw) ==
        LastRetry("callback", oid, act, resp, a, gw,
                  IF a = NoAmount THEN NoCurrency ELSE cur, retry)
  IN
  IF gwFail
  THEN /\ last' = Rec("gateway_error", "error", NoAmount, "thrown")
       /\ OnGatewayError(oid)
  ELSE IF statusUpper = "COMPLETED"
  THEN IF ExceedsTolerance(paidAmount, loaded.total)
       THEN /\ SaveOnly(oid, loaded,
                        [loaded EXCEPT !.paymentStatus = "failed", !.paymentId = tid])
            /\ last' = Rec("mismatch", "error", amt, status)
       ELSE IF txFail
       THEN /\ last' = Rec("aborted", "error", amt, status)
            /\ AbortFulfilment(oid, loaded, MarkPaid(loaded, tid))
       ELSE /\ CommitFulfilment(oid, loaded, MarkPaid(loaded, tid))
            /\ last' \in SendOrderConfirmationEmail(Rec("fulfilled", redirect, amt, status))
  ELSE IF statusUpper = "FAILED"
  THEN /\ SaveOnly(oid, loaded,
                   [loaded EXCEPT !.paymentStatus = "failed", !.paymentId = tid])
       /\ last' = Rec("failed", redirect, NoAmount, status)
  ELSE /\ SaveOnly(oid, loaded,
                   [loaded EXCEPT !.paymentStatus = "processing", !.paymentId = tid])
       /\ last' = Rec("processing", redirect, NoAmount, status)

\* pesapalCallback from the answer of the status query on
PesapalCallbackResume(r, status, amt, cur, gwFail, txFail) ==
  LET h == reqs[r][1] IN
  /\ Held(r, "callback.query")
  /\ CallbackFinish(h.oid, h.loaded, h.tid, status, amt, cur, gwFail, txFail, h.retry)
  /\ Answer(r)
  /\ UNCHANGED ResumeFrame

\* ------------------------------------------------------------ pesapalIPN
\* pesapalIPN up to the gate: verifyIPN queries the gateway with the
\* tracking id, then the order is read by its number
PesapalIPNBegin(r, tid, ref, status, amt, cur, gwFail) ==
  LET o == FindByOrderNumber(ref) IN
  /\ Idle(r)
  /\ IF gwFail
     THEN /\ last' = LastGw("ipn", NoOrder, "gateway_error", "500", NoAmount, "thrown")
          /\ Answer(r)
          /\ OnGatewayError(ref)
     ELSE /\ IF o = NoOrder
             THEN /\ last' = LastGw("ipn", NoOrder, "not_found", "404", NoAmount, status)
                  /\ Answer(r)
             ELSE IF AlreadyPaid(orders[o])
             THEN /\ last' = LastRetry("ipn", o, "already_paid", "200", NoAmount,
                                       status, NoCurrency, AfterAbort(o))
                  /\ Answer(r)
             ELSE /\ Suspend(r, [op |-> "ipn.save", oid |-> o, loaded |-> orders[o],
                                 tid |-> tid, status |-> status, amt |-> amt,
                                 cur |-> cur, retry |-> AfterAbort(o)])
                  /\ last' = LastGw("ipn", o, "loaded", "none", NoAmount, status)
          /\ NoWrite
  /\ UNCHANGED BeginFrame

\* the part of the notification handler after the order was loaded and
\* found not paid
IPNFinish(oid, loaded, tid, status, amt, cur, txFail, retry) ==
  LET statusUpper == ToUpperCase(status)
      paidAmount == ParseFloatOrZero(amt)
      Rec(act, resp, a) ==
        LastRetry("ipn", oid, act, resp, a, status,
                  IF a = NoAmount THEN NoCurrency ELSE cur, retry)
  IN
  IF statusUpper = "COMPLETED"
  THEN IF ExceedsTolerance(paidAmount, loaded.total)
       THEN /\ SaveOnly(oid, loaded, [loaded EXCEPT !.paymentStatus = "failed"])
            /\ last' = Rec("mismatch", "400", amt)
       ELSE IF txFail
       THEN /\ last' = Rec("aborted", "500", amt)
            /\ AbortFulfilment(oid, loaded, MarkPaid(loaded, tid))
       ELSE /\ CommitFulfilment(oid, loaded, MarkPaid(loaded, tid))
            /\ last' \in SendOrderConfirmationEmail(Rec("fulfilled", "200", amt))
  ELSE IF statusUpper = "FAILED"
  THEN /\ SaveOnly(oid, loaded,
                   [loaded EXCEPT !.paymentStatus = "failed", !.paymentId = tid])
       /\ last' = Rec("failed", "200", NoAmount)
  ELSE /\ SaveOnly(oid, loaded, [loaded EXCEPT !.paymentId = tid])
       /\ last' = Rec("processing", "200", NoAmount)

\* pesapalIPN from the gate on
PesapalIPNResume(r, txFail) ==
  LET h == reqs[r][1] IN
  /\ Held(r, "ipn.save")
  /\ IPNFinish(h.oid, h.loaded, h.tid, h.status, h.amt, h.cur, txFail, h.retry)
  /\ Answer(r)
  /\ UNCHANGED ResumeFrame

\* --------------------------------------------------- handlePayPalWebhook
EventTypes == {"CHECKOUT.ORDER.APPROVED", "PAYMENT.CAPTURE.COMPLETED", "OTHER"}

\* what a delivery carries for verification: whether the five signature
\* headers are present, how the verification call ended, and its verdict
SigInputs ==
  {[headers |-> TRUE,  call |-> "ok",     status |-> "SUCCESS"],
   [headers |-> TRUE,  call |-> "ok",     status |-> "FAILURE"],
   [headers |-> TRUE,  call |-> "thrown", status |-> "none"],
   [headers |-> FALSE, call |-> "none",   status |-> "none"]}

\* variant: every delivery is taken as verified
VerifyNothing(sig) == TRUE

\* verifyWebhookSignature once it holds the access token: false without the
\* headers, false when the verification call throws, true only for
\* verification_status SUCCESS
VerifyWebhookSignature(sig) ==
  IF ~sig.headers THEN FALSE
  ELSE IF sig.call # "ok" THEN FALSE
  ELSE sig.status = "SUCCESS"

\* variant: the delivery is answered only when its handling has ended
Unacknowledged == "none"

\* handlePayPalWebhook, first statement: res.status(200).json({received: true})
Acknowledged == "200"

\* verifyWebhookSignature looks at the signature headers as soon as it holds
\* the token: a delivery without them is given up there, before the
\* verification call
HeadersMissing(sig) == ~sig.headers

\* handlePayPalWebhook up to the first request it waits for: the
\* acknowledgment, the body parse, and verifyWebhookSignature as far as its
\* request for the token or, with a cached token, its verification call
HandlePayPalWebhookBegin(r, parseOk, sig, eventType, ppid, amt, cur) ==
  /\ Idle(r)
  /\ IF ~parseOk
     THEN /\ last' = Last("webhook", NoOrder, "parse_error", Acknowledged)
          /\ Answer(r)
          /\ UNCHANGED paypalAuth
     ELSE IF CacheValid /\ HeadersMissing(sig)
     THEN /\ last' = Last("webhook", NoOrder, "bad_signature", Acknowledged)
          /\ Answer(r)
          /\ UNCHANGED paypalAuth
     ELSE /\ last' = Last("webhook", NoOrder, "acknowledged", Acknowledged)
          /\ Suspend(r, [op |-> AfterTokenCheck("webhook"), sig |-> sig,
                         eventType |-> eventType, ppid |-> ppid, amt |-> amt,
                         cur |-> cur])
          /\ GetAccessTokenBegin
  /\ NoWrite
  /\ UNCHANGED <<restd, nCart, nAdmin>>

\* handlePaymentCaptureCompleted after the order was loaded and found not paid
WebhookFinish(oid, loaded, amt, cur, txFail) ==
  LET doc == MarkPaidConfirmed(loaded, CaptureId) IN
  IF txFail
  THEN /\ last' = LastCur("webhook", oid, "aborted", "none", amt, NoId, cur)
       /\ AbortFulfilment(oid, loaded, doc)
  ELSE /\ CommitFulfilment(oid, loaded, doc)
       /\ last' \in SendOrderConfirmationEmail(
                      LastCur("webhook", oid, "fulfilled", "none", amt, NoId, cur))

\* handlePayPalWebhook after the acknowledgment, one segment at a time: the
\* token response with the look at the signature headers, then the
\* verification call and the lookup of the order with its checks, then the
\* fulfilment transaction.  Nothing is answered
\* any more, the outcome of each segment is logged.
HandlePayPalWebhookResume(r, outcome, expires_in, txFail) ==
  LET h == reqs[r][1]
      oid == FindByPayPalOrderId(h.ppid)
  IN
  /\ reqs[r] # <<>>
  /\ h.op \in {"webhook.token", "webhook.call", "webhook.transaction"}
  /\ IF h.op = "webhook.token"
     THEN /\ GetAccessTokenResume(outcome, expires_in)
          /\ IF outcome # "token" \/ HeadersMissing(h.sig)
             THEN /\ last' = Last("webhook", NoOrder, "bad_signature", "none")
                  /\ Answer(r)
             ELSE /\ last' = Last("webhook", NoOrder, "token", "none")
                  /\ Suspend(r, [h EXCEPT !.op = "webhook.call"])
          /\ NoWrite
     ELSE IF h.op = "webhook.call"
     THEN /\ UNCHANGED paypalAuth
          /\ NoWrite
          /\ IF ~VerifyWebhookSignature(h.sig)
             THEN /\ last' = Last("webhook", NoOrder, "bad_signature", "none")
                  /\ Answer(r)
             ELSE IF h.eventType # "PAYMENT.CAPTURE.COMPLETED"
             THEN /\ last' = Last("webhook", NoOrder, "ignored", "none")
                  /\ Answer(r)
             ELSE IF h.ppid = NoOrder \/ oid = NoOrder
             THEN /\ last' = LastCur("webhook", NoOrder, "not_found", "none",
                                     h.amt, NoId, h.cur)
                  /\ Answer(r)
             ELSE IF AlreadyPaid(orders[oid])
             THEN /\ last' = Last("webhook", oid, "already_paid", "none")
                  /\ Answer(r)
             ELSE IF ExceedsTolerance(ParseFloatOrZero(h.amt), orders[oid].total)
             THEN /\ last' = LastAmt("webhook", oid, "mismatch", "none", h.amt)
                  /\ Answer(r)
             ELSE /\ last' = Last("webhook", oid, "loaded", "none")
                  /\ Suspend(r, [op |-> "webhook.transaction", oid |-> oid,
                                 loaded |-> orders[oid], ppid |-> h.ppid,
                                 amt |-> h.amt, cur |-> h.cur])
     ELSE /\ UNCHANGED paypalAuth
          /\ WebhookFinish(h.oid, h.loaded, h.amt, h.cur, txFail)
          /\ Answer(r)
  /\ UNCHANGED <<restd, nCart, nAdmin, nReq>>

\* ------------------------------------------------------------ cancelOrder
\* if (!['pending', 'confirmed'].includes(order.orderStatus)) reject
Cancellable(doc) == doc.orderStatus \in {"pending", "confirmed"}

\* cancelOrder up to its status guard: the order is read and tested
CancelOrderBegin(r, u, oid) ==
  LET o == FindOwn(u, oid) IN
  /\ Idle(r)
  /\ IF o = NoOrder
     THEN /\ last' = Last("cancelOrder", NoOrder, "none", "ORDER_NOT_FOUND")
          /\ Answer(r)
     ELSE IF ~Cancellable(orders[o])
     THEN /\ last' = Last("cancelOrder", o, "none", "CANCEL_NOT_ALLOWED")
          /\ Answer(r)
     ELSE /\ Suspend(r, [op |-> "cancelOrder.restore", oid |-> o,
                         loaded |-> orders[o], k |-> 1])
          /\ last' = Last("cancelOrder", o, "loaded", "none")
  /\ NoWrite
  /\ UNCHANGED BeginFrame

\* cancelOrder after the guard: one $inc per line item of the document it
\* read, each awaited, then order.save() of that document with orderStatus
\* cancelled
CancelOrderResume(r) ==
  LET h == reqs[r][1]
      item == h.loaded.items[h.k]
  IN
  /\ Held(r, "cancelOrder.restore")
  /\ IF h.k <= Len(h.loaded.items)
     THEN /\ products' = IncStock(products, item.productId, item.quantity)
          /\ restd' = AddMoved(restd, h.oid, <<item>>)
          /\ Suspend(r, [h EXCEPT !.k = @ + 1])
          /\ last' = Last("cancelOrder", h.oid, "restoring", "none")
          /\ UNCHANGED orders
     ELSE /\ orders' = [orders EXCEPT ![h.oid] =
                          SaveDoc(@, h.loaded, [h.loaded EXCEPT !.orderStatus = "cancelled"])]
          /\ Answer(r)
          /\ last' = Last("cancelOrder", h.oid, "cancelled", "200")
          /\ UNCHANGED <<products, restd>>
  /\ UNCHANGED <<carts, cartV, decd, nClear, paypalAuth, nCart, nAdmin, nReq>>

\* ------------------------------------------------------ updateOrderStatus
\* administrator route, up to the save: the order is read by its id
UpdateOrderStatusBegin(r, oid, status) ==
  LET o == FindById(oid) IN
  /\ Idle(r)
  /\ nAdmin < MaxAdminOps
  /\ nAdmin' = nAdmin + 1
  /\ IF o = NoOrder
     THEN /\ last' = Last("updateOrderStatus", NoOrder, "none", "ORDER_NOT_FOUND")
          /\ Answer(r)
     ELSE /\ Suspend(r, [op |-> "updateOrderStatus.save", oid |-> o,
                         loaded |-> orders[o], status |-> status])
          /\ last' = Last("updateOrderStatus", o, "loaded", "none")
  /\ NoWrite
  /\ UNCHANGED <<restd, paypalAuth, nCart>>

\* any status of the enum is assigned as given to the document read before,
\* which is saved; a body without orderStatus changes nothing
UpdateOrderStatusResume(r) ==
  LET h == reqs[r][1] IN
  /\ Held(r, "updateOrderStatus.save")
  /\ SaveOnly(h.oid, h.loaded,
              IF h.status = NoId THEN h.loaded
              ELSE [h.loaded EXCEPT !.orderStatus = h.status])
  /\ last' = Last("updateOrderStatus", h.oid, "updated", "200")
  /\ Answer(r)
  /\ UNCHANGED ResumeFrame

\* --------------------------------------- adminController.updateOrderStatus
\* PUT /api/admin/orders/:id/status, up to the update: the order is read by
\* its id only to answer 404 when there is none; the body is not validated
AdminUpdateOrderStatusBegin(r, oid, status) ==
  LET o == FindById(oid) IN
  /\ Idle(r)
  /\ nAdmin < MaxAdminOps
  /\ nAdmin' = nAdmin + 1
  /\ IF o = NoOrder
     THEN /\ last' = Last("adminUpdateOrderStatus", NoOrder, "none", "ORDER_NOT_FOUND")
          /\ Answer(r)
     ELSE /\ Suspend(r, [op |-> "adminUpdateOrderStatus.update", oid |-> o,
                         status |-> status])
          /\ last' = Last("adminUpdateOrderStatus", o, "loaded", "none")
  /\ NoWrite
  /\ UNCHANGED <<restd, paypalAuth, nCart>>

\* Order.findByIdAndUpdate(id, { orderStatus }): the field is set on the
\* stored document, whatever the document read before held; a body without
\* orderStatus sets nothing
AdminUpdateOrderStatusResume(r) ==
  LET h == reqs[r][1] IN
  /\ Held(r, "adminUpdateOrderStatus.update")
  /\ orders' = [orders EXCEPT ![h.oid].orderStatus =
                  IF h.status = NoId THEN @ ELSE h.status]
  /\ UNCHANGED <<products, carts, cartV, decd, nClear>>
  /\ last' = Last("adminUpdateOrderStatus", h.oid, "updated", "200")
  /\ Answer(r)
  /\ UNCHANGED ResumeFrame

\* ---------------------------------------------------- updatePaymentStatus
\* customer route PUT /api/orders/:id/payment, up to the save: the caller's
\* order is read
UpdatePaymentStatusBegin(r, u, oid, paymentStatus, paymentId) ==
  LET o == FindOwn(u, oid) IN
  /\ Idle(r)
  /\ IF o = NoOrder
     THEN /\ last' = Last("updatePaymentStatus", NoOrder, "none", "ORDER_NOT_FOUND")
          /\ Answer(r)
     ELSE /\ Suspend(r, [op |-> "updatePaymentStatus.save", oid |-> o,
                         loaded |-> orders[o], paymentStatus |-> paymentStatus,
                         paymentId |-> paymentId])
          /\ last' = Last("updatePaymentStatus", o, "loaded", "none")
  /\ NoWrite
  /\ UNCHANGED BeginFrame

\* the paymentStatus and the paymentId of the body are assigned as given to
\* the document read before, which is saved; either may be absent.  The
\* order's manual field is history: the number of such saves.
UpdatePaymentStatusResume(r) ==
  LET h == reqs[r][1]
      doc == [h.loaded EXCEPT
                !.paymentStatus = IF h.paymentStatus = NoId THEN @ ELSE h.paymentStatus,
                !.paymentId = IF h.paymentId = NoId THEN @ ELSE h.paymentId]
  IN
  /\ Held(r, "updatePaymentStatus.save")
  /\ orders' = [orders EXCEPT ![h.oid] =
                  [SaveDoc(@, h.loaded, doc) EXCEPT !.manual = @ + 1]]
  /\ last' = Last("updatePaymentStatus", h.oid, "updated", "200")
  /\ Answer(r)
  /\ UNCHANGED <<products, carts, cartV, decd, nClear, ResumeFrame>>

\* ----------------------------------------------------- checkPaymentStatus
\* GET /api/payments/status/:orderId up to the status query: the order of
\* the caller is read; without a paymentId it is reported at once
CheckPaymentStatusBegin(r, u, oid) ==
  LET o == FindOwn(u, oid) IN
  /\ Idle(r)
  /\ IF o = NoOrder
     THEN /\ last' = Last("status", NoOrder, "none", "ORDER_NOT_FOUND")
          /\ Answer(r)
     ELSE IF orders[o].paymentId = NoId
     THEN /\ last' = LastGw("status", o, "read", "200", NoAmount, NoId)
          /\ Answer(r)
     ELSE /\ Suspend(r, [op |-> "status.query", oid |-> o, loaded |-> orders[o]])
          /\ last' = Last("status", o, "loaded", "none")
  /\ NoWrite
  /\ UNCHANGED BeginFrame

\* variant: the first version of the status query, which wrote what the
\* gateway reported: paid (and confirmed from pending) for completed, failed
\* for failed, by a plain order.save()
CheckPaymentStatusWriting(r, status, amt, gwFail) ==
  LET h == reqs[r][1]
      statusUpper == ToUpperCase(status)
  IN
  /\ Held(r, "status.query")
  /\ IF gwFail
     THEN /\ last' = LastGw("status", h.oid, "read", "200", NoAmount, "thrown")
          /\ NoWrite
     ELSE /\ last' = LastGw("status", h.oid, "read", "200", amt, status)
          /\ IF statusUpper = "COMPLETED" /\ h.loaded.paymentStatus # "paid"
             THEN SaveOnly(h.oid, h.loaded,
                           [h.loaded EXCEPT !.paymentStatus = "paid",
                                            !.orderStatus =
                                              IF @ = "pending" THEN "confirmed" ELSE @])
             ELSE IF statusUpper = "FAILED"
             THEN SaveOnly(h.oid, h.loaded, [h.loaded EXCEPT !.paymentStatus = "failed"])
             ELSE NoWrite
  /\ Answer(r)
  /\ UNCHANGED ResumeFrame

\* checkPaymentStatus from the answer of the status query on: a failure of
\* the query is logged and swallowed; the order as read and what the gateway
\* said are reported, nothing is written
CheckPaymentStatusResume(r, status, amt, gwFail) ==
  LET h == reqs[r][1] IN
  /\ Held(r, "status.query")
  /\ IF gwFail
     THEN last' = LastGw("status", h.oid, "read", "200", NoAmount, "thrown")
     ELSE last' = LastGw("status", h.oid, "read", "200", amt, status)
  /\ NoWrite
  /\ Answer(r)
  /\ UNCHANGED ResumeFrame

\* ---------------------------------------------------------- specification
Qtys == 1..MaxQty
ItemSlots == 1..Cardinality(Products)
TotalOf(o) == IF o \in 1..Len(orders) THEN orders[o].total ELSE 0

\* requests overlap: a request is admitted whatever is in flight
Overlapping == nReq < MaxAdmitted /\ nReq' = nReq + 1

\* requests arrive as they like: a request is admitted when none is in
\* flight, and up to MaxOverlaps times while another one is
Mixed ==
  /\ NoneInFlight \/ nReq < MaxOverlaps
  /\ nReq' = IF NoneInFlight THEN nReq ELSE nReq + 1

\* a request that is counted elsewhere (cart requests by nCart, the
\* administrator's by nAdmin) is admitted whatever is in flight
Freely == UNCHANGED nReq

Admitted(how) ==
  CASE how = "overlapping" -> Overlapping
    [] how = "mixed" -> Mixed
    [] how = "freely" -> Freely

\* bodies of product edits
Bodies ==
  {[price |-> v] : v \in Prices} \cup {[active |-> b] : b \in BOOLEAN}
    \cup {[stock |-> s] : s \in {0, InitStock + 1}}
    \cup {[price |-> 20, active |-> FALSE, stock |-> 0]}

\* the administrator edits the products P with the bodies B and deletes
\* them, whatever is in flight
EditStep(P, B) ==
  \/ \E r \in ReqIds, p \in P, body \in B : UpdateProductBegin(r, p, body)
  \/ \E r \in ReqIds : UpdateProductResume(r)
  \/ \E r \in ReqIds, p \in P : DeleteProductBegin(r, p)
  \/ \E r \in ReqIds : DeleteProductResume(r)

AdminStep == EditStep(Products, Bodies)

\* the names of new products: the name of a product of the catalogue, and
\* a name no product has; both are in slug form (lower case, letters and
\* digits), which generateSlug leaves as it is
ProductNames == {"p1", "new"}

\* the administrator adds a product while there is an id left for it
CatalogueStep ==
  \/ /\ \E p \in Products : products[p].unused
     /\ \E r \in ReqIds, n \in ProductNames, v \in Prices :
          CreateProductBegin(r, [name |-> n, price |-> v, stock |-> InitStock])
  \/ \E r \in ReqIds, p \in Products : CreateProductResume(r, p)

\* the five cart handlers
CartBegin ==
  \E r \in ReqIds, u \in Users :
    \/ \E p \in Products, q \in Qtys : AddToCartBegin(r, u, p, q)
    \/ \E i \in ItemSlots, q \in Qtys : UpdateCartItemBegin(r, u, i, q)
    \/ \E i \in ItemSlots : RemoveFromCartBegin(r, u, i)
    \/ ClearCartBegin(r, u)
    \/ GetCartBegin(r, u)

CartResume ==
  \E r \in ReqIds :
    \/ AddToCartResume(r)
    \/ UpdateCartItemResume(r)
    \/ RemoveFromCartResume(r)
    \/ ClearCartResume(r)
    \/ GetCartResume(r)

\* the customer adds products of P to the cart, whatever is in flight; cart
\* requests are counted by nCart
FillCart(P) ==
  \/ \E r \in ReqIds, u \in Users, p \in P : AddToCartBegin(r, u, p, 1)
  \/ \E r \in ReqIds : AddToCartResume(r)

\* createOrder requests; none of them stores an order that a later one
\* could build on
CreateOrderStep(how, D) ==
  \/ /\ Admitted(how)
     /\ \E r \in ReqIds, u \in Users, d \in D : CreateOrderBegin(r, u, d)
  \/ \E r \in ReqIds : CreateOrderResume(r)

\* token responses in the specifications that are not about the cache: the
\* response carries no expires_in
TokenOutcome(r) ==
  IF reqs[r] # <<>> /\ reqs[r][1].op = "webhook.token"
  THEN FetchOutcomes ELSE {"token"}

InitiateStep(how, T) ==
  \/ /\ Admitted(how)
     /\ \E r \in ReqIds, u \in Users, o \in OrderIds : InitiatePaymentBegin(r, u, o)
  \/ \E r \in ReqIds, t \in T, f \in BOOLEAN : InitiatePaymentResume(r, t, f)

\* the two PayPal routes of the customer
CreatePayPalOrderStep(how) ==
  Admitted(how) /\ \E r \in ReqIds : CreatePayPalOrderRoute(r)

CaptureStep(how) ==
  Admitted(how) /\ \E r \in ReqIds : CapturePayPalPaymentRoute(r)

CompletedSpellings == {"COMPLETED", "Completed"}
OtherStatuses == StatusInputs \ CompletedSpellings
AnyAmount == NumAmount(0)

\* what the gateway may answer to a status query for a payment made for an
\* order of the given total:
\* <<status, amount, currency, query fails, transaction fails>>
GatewayAnswers(total) ==
  {<<"COMPLETED", AnyAmount, PesapalCurrency, TRUE, FALSE>>}
    \cup {<<s, NumAmount(total), PesapalCurrency, FALSE, FALSE>> : s \in OtherStatuses}
    \cup {<<"COMPLETED", a, PesapalCurrency, FALSE, FALSE>> : a \in AmountInputs(total)}
    \cup {<<"COMPLETED", NumAmount(total), "USD", FALSE, FALSE>>}
    \cup {<<s, NumAmount(total), PesapalCurrency, FALSE, x>> :
            s \in CompletedSpellings, x \in BOOLEAN}

CallbackStep(how, T) ==
  \/ /\ Admitted(how)
     /\ \E r \in ReqIds, t \in T \cup {NoId}, ref \in Refs : PesapalCallbackBegin(r, t, ref)
  \/ \E r \in ReqIds :
       /\ Held(r, "callback.query")
       /\ \E g \in GatewayAnswers(reqs[r][1].loaded.total) :
            PesapalCallbackResume(r, g[1], g[2], g[3], g[4], g[5])

IPNStep(how, T) ==
  \/ /\ Admitted(how)
     /\ \E r \in ReqIds, t \in T, ref \in Refs :
          \E g \in GatewayAnswers(TotalOf(FindByOrderNumber(ref))) :
            /\ ~g[5]
            /\ PesapalIPNBegin(r, t, ref, g[1], g[2], g[3], g[4])
  \/ \E r \in ReqIds, x \in BOOLEAN : PesapalIPNResume(r, x)

ValidSig == [headers |-> TRUE, call |-> "ok", status |-> "SUCCESS"]

\* the deliveries of the PayPal webhook: a body that does not parse, events
\* of every type, and capture-completed events for the gateway order of an
\* order, with any signature, amount and currency
WebhookDeliveries ==
  {<<FALSE, ValidSig, "PAYMENT.CAPTURE.COMPLETED", NoOrder, AnyAmount, "USD">>}
    \cup {<<TRUE, ValidSig, e, NoOrder, AnyAmount, "USD">> :
            e \in EventTypes \ {"PAYMENT.CAPTURE.COMPLETED"}}
    \cup {<<TRUE, sig, "PAYMENT.CAPTURE.COMPLETED", o, NumAmount(TotalOf(o)), "USD">> :
            sig \in SigInputs, o \in (1..Len(orders)) \cup {NoOrder}}
    \cup UNION {{<<TRUE, ValidSig, "PAYMENT.CAPTURE.COMPLETED", o, a, "USD">> :
                   a \in AmountInputs(TotalOf(o))} : o \in 1..Len(orders)}
    \cup {<<TRUE, ValidSig, "PAYMENT.CAPTURE.COMPLETED", o, NumAmount(TotalOf(o)), c>> :
            c \in CurrencyInputs, o \in 1..Len(orders)}

\* the deliveries among them that pass verification and report the capture
\* for the gateway order of an order as completed, with the order's total
\* or another amount
CompletedDeliveries ==
  UNION {{<<TRUE, ValidSig, "PAYMENT.CAPTURE.COMPLETED", o, a, "USD">> :
            a \in {NumAmount(TotalOf(o)), NumAmount(TotalOf(o) + 1)}} :
         o \in 1..Len(orders)}

WebhookStep(how, D) ==
  \/ /\ Admitted(how)
     /\ \E r \in ReqIds, d \in D :
          HandlePayPalWebhookBegin(r, d[1], d[2], d[3], d[4], d[5], d[6])
  \/ \E r \in ReqIds, x \in BOOLEAN :
       \E out \in TokenOutcome(r) : HandlePayPalWebhookResume(r, out, 0, x)

CancelStep(how) ==
  \/ /\ Admitted(how)
     /\ \E r \in ReqIds, u \in Users, o \in OrderIds : CancelOrderBegin(r, u, o)
  \/ \E r \in ReqIds : CancelOrderResume(r)

\* the administrator sets the status of an order to one of S through either
\* of the two controllers, whatever is in flight
AdminStatus(S) ==
  \/ /\ UNCHANGED nReq
     /\ \E r \in ReqIds, o \in OrderIds, st \in S : UpdateOrderStatusBegin(r, o, st)
  \/ \E r \in ReqIds : UpdateOrderStatusResume(r)
  \/ /\ UNCHANGED nReq
     /\ \E r \in ReqIds, o \in OrderIds, st \in S : AdminUpdateOrderStatusBegin(r, o, st)
  \/ \E r \in ReqIds : AdminUpdateOrderStatusResume(r)

\* the customer writes the payment status of an order directly
ManualInputs ==
  {<<"pending", NoId>>, <<"paid", NoId>>, <<"refunded", NoId>>, <<NoId, "t2">>}

ManualStep(how) ==
  \/ /\ Admitted(how)
     /\ \E r \in ReqIds, u \in Users, o \in OrderIds, in \in ManualInputs :
          /\ o \in 1..Len(orders) => orders[o].manual < MaxManualOps
          /\ UpdatePaymentStatusBegin(r, u, o, in[1], in[2])
  \/ \E r \in ReqIds : UpdatePaymentStatusResume(r)

StatusStep(how) ==
  \/ /\ Admitted(how)
     /\ \E r \in ReqIds, u \in Users, o \in OrderIds : CheckPaymentStatusBegin(r, u, o)
  \/ \E r \in ReqIds, s \in StatusInputs, f \in BOOLEAN :
       /\ Held(r, "status.query")
       /\ CheckPaymentStatusResume(r, s, NumAmount(reqs[r][1].loaded.total), f)

\* the payment engine: the requests of the customer, the gateways and the
\* browser for the orders in the collection, served one by one or overlapping
Next ==
  \/ InitiateStep("mixed", {"t1"})
  \/ CreatePayPalOrderStep("mixed")
  \/ CallbackStep("mixed", {"t1"})
  \/ IPNStep("mixed", {"t1"})
  \/ WebhookStep("mixed", CompletedDeliveries)
  \/ CaptureStep("mixed")
  \/ CancelStep("mixed")

Spec == Init /\ [][Next]_vars

\* the payment engine next to the customer's direct payment-status writes,
\* the requests served one by one or overlapping
NextManual ==
  \/ InitiateStep("mixed", {"t1"})
  \/ CallbackStep("mixed", {"t1"})
  \/ IPNStep("mixed", {"t1"})
  \/ CancelStep("mixed")
  \/ ManualStep("mixed")

SpecManual == Init /\ [][NextManual]_vars

\* catalogue edits, cart requests and order creation, overlapping as they
\* come
CartStep ==
  \/ CartBegin
  \/ CartResume

NextOrder ==
  \/ AdminStep
  \/ CatalogueStep
  \/ CartStep
  \/ CreateOrderStep("freely", DeliveryMethods)

SpecOrder == InitCatalogue /\ [][NextOrder]_vars

\* cancellation next to push notifications and the administrator's status
\* changes, served one by one or overlapping; the administrator reopens an
\* order, cancels it or sends no status
CancelStatuses == {"pending", "cancelled", NoId}

NextCancel ==
  \/ IPNStep("mixed", {"t1"})
  \/ AdminStatus(CancelStatuses)
  \/ CancelStep("mixed")

SpecCancel == Init /\ [][NextCancel]_vars

\* the confirmation handlers overlapping between their read and their write
ConcAmounts(total) == {NumAmount(total), NumAmount(total + 1)}
ConcStatuses == {"COMPLETED", "FAILED"}

\* what the gateway answers while confirmations overlap
ConcAnswers(total) ==
  {<<"COMPLETED", AnyAmount, PesapalCurrency, TRUE, FALSE>>}
    \cup {<<s, a, PesapalCurrency, FALSE, x>> :
            s \in ConcStatuses, a \in ConcAmounts(total), x \in BOOLEAN}

CallbackConc ==
  \/ /\ Overlapping
     /\ \E r \in ReqIds, t \in {"t1", NoId}, ref \in Refs : PesapalCallbackBegin(r, t, ref)
  \/ \E r \in ReqIds :
       /\ Held(r, "callback.query")
       /\ \E g \in ConcAnswers(reqs[r][1].loaded.total) :
            PesapalCallbackResume(r, g[1], g[2], g[3], g[4], g[5])

IPNConc ==
  \/ /\ Overlapping
     /\ \E r \in ReqIds, ref \in Refs :
          \E g \in ConcAnswers(TotalOf(FindByOrderNumber(ref))) :
            /\ ~g[5]
            /\ PesapalIPNBegin(r, "t1", ref, g[1], g[2], g[3], g[4])
  \/ \E r \in ReqIds, x \in BOOLEAN : PesapalIPNResume(r, x)

NextConc ==
  \/ FillCart({"p1"})
  \/ CallbackConc
  \/ IPNConc

SpecConc == Init /\ [][NextConc]_vars

\* webhook deliveries that overlap, next to the two PayPal routes
NextWebhook ==
  \/ FillCart({"p1"})
  \/ CreatePayPalOrderStep("mixed")
  \/ CaptureStep("mixed")
  \/ WebhookStep("overlapping", WebhookDeliveries)

SpecWebhook == Init /\ [][NextWebhook]_vars

\* cancellation and push notifications overlapping between read and write
NextRace ==
  \/ FillCart({"p1"})
  \/ IPNConc
  \/ CancelStep("overlapping")

SpecRace == Init /\ [][NextRace]_vars

\* status queries next to payment initiation and push notifications
NextStatus ==
  \/ FillCart({"p1"})
  \/ InitiateStep("mixed", {"t1"})
  \/ IPNStep("mixed", {"t1"})
  \/ StatusStep("mixed")

SpecStatus == Init /\ [][NextStatus]_vars

\* the customer polls the status of an order whose payment the gateway holds
\* as completed with the order's total; no confirmation is ever delivered.
\* A poll either gets the gateway's answer or meets a failing query.
PollBegin ==
  /\ Mixed
  /\ \E r \in ReqIds, u \in Users, o \in 1..Len(orders) : CheckPaymentStatusBegin(r, u, o)

PollAnswered ==
  \E r \in ReqIds :
    /\ Held(r, "status.query")
    /\ CheckPaymentStatusResume(r, "COMPLETED", NumAmount(reqs[r][1].loaded.total), FALSE)

PollUnanswered ==
  \E r \in ReqIds :
    /\ Held(r, "status.query")
    /\ CheckPaymentStatusResume(r, "COMPLETED", NumAmount(reqs[r][1].loaded.total), TRUE)

NextPoll ==
  \/ FillCart({"p1"})
  \/ InitiateStep("mixed", {"t1"})
  \/ PollBegin
  \/ PollAnswered
  \/ PollUnanswered

\* a request in flight is handled to its end, the customer polls the order
\* again and again, whatever else is requested in between, and the polls do
\* not all meet a failing query
SpecPoll ==
  /\ Init /\ [][NextPoll]_vars
  /\ WF_vars(NextPoll) /\ SF_vars(PollBegin) /\ SF_vars(PollAnswered)

\* two orders and the payments the gateway holds for them.  submitOrder returns
\* a tracking id of its own for every order submitted: TrackingOf(o) is the
\* one issued for order o, IssuedFor(t) the order that t was issued for.
TrackingOf(o) == IF o = 1 THEN "t1" ELSE "t2"
IssuedFor(t) == IF t = "t1" THEN 1 ELSE 2

\* the gateway holds a payment under tracking id t
Known(t) ==
  /\ IssuedFor(t) \in 1..Len(orders)
  /\ orders[IssuedFor(t)].paymentStatus # "pending"

InitiatePair ==
  \/ /\ Mixed
     /\ \E r \in ReqIds, u \in Users, o \in OrderIds : InitiatePaymentBegin(r, u, o)
  \/ \E r \in ReqIds :
       /\ Held(r, "initiatePayment.submit")
       /\ InitiatePaymentResume(r, TrackingOf(reqs[r][1].oid), FALSE)

\* a callback or notification names a tracking id and a merchant reference;
\* the gateway answers the query for the tracking id with the completed
\* payment it holds, whose amount is the total of the order it was made for
CallbackPair ==
  \/ /\ Mixed
     /\ \E r \in ReqIds, t \in TrackingIds, ref \in OrderIds :
          /\ Known(t)
          /\ PesapalCallbackBegin(r, t, ref)
  \/ \E r \in ReqIds :
       /\ Held(r, "callback.query")
       /\ PesapalCallbackResume(r, "COMPLETED",
                                NumAmount(TotalOf(IssuedFor(reqs[r][1].tid))),
                                PesapalCurrency, FALSE, FALSE)

IPNPair ==
  \/ /\ Mixed
     /\ \E r \in ReqIds, t \in TrackingIds, ref \in OrderIds :
          /\ Known(t)
          /\ PesapalIPNBegin(r, t, ref, "COMPLETED", NumAmount(TotalOf(IssuedFor(t))),
                             PesapalCurrency, FALSE)
  \/ \E r \in ReqIds : PesapalIPNResume(r, FALSE)

NextPair ==
  \/ InitiatePair
  \/ CallbackPair
  \/ IPNPair

SpecPair == InitWith(MaxStockOrders) /\ [][NextPair]_vars

\* payment initiations overlapping with the confirmation of a payment: the
\* push notification of a payment the customer made for an order under the
\* tracking id the order carries.  The notifications are admitted whatever
\* is in flight and are not counted: each payment is notified as often as
\* the gateway likes.
IPNOfInitiated ==
  \/ /\ UNCHANGED nReq
     /\ \E r \in ReqIds, o \in OrderIds, s \in ConcStatuses :
          /\ o \in 1..Len(orders)
          /\ orders[o].paymentId \in TrackingIds
          /\ PesapalIPNBegin(r, orders[o].paymentId, orders[o].orderNumber, s,
                             NumAmount(TotalOf(o)), PesapalCurrency, FALSE)
  \/ \E r \in ReqIds : PesapalIPNResume(r, FALSE)

NextInitiate ==
  \/ InitiateStep("overlapping", TrackingIds)
  \/ IPNOfInitiated
  \/ CancelStep("overlapping")

SpecInitiate == Init /\ [][NextInitiate]_vars

\* callbacks and push notifications reporting any outcome of a payment, for
\* any order, served one by one or overlapping
CallbackOutcome ==
  \/ /\ Mixed
     /\ \E r \in ReqIds, ref \in Refs : PesapalCallbackBegin(r, "t1", ref)
  \/ \E r \in ReqIds, s \in StatusInputs :
       /\ Held(r, "callback.query")
       /\ PesapalCallbackResume(r, s, NumAmount(reqs[r][1].loaded.total),
                                PesapalCurrency, FALSE, FALSE)

IPNOutcome ==
  \/ /\ Mixed
     /\ \E r \in ReqIds, ref \in Refs, s \in StatusInputs :
          PesapalIPNBegin(r, "t1", ref, s, NumAmount(TotalOf(FindByOrderNumber(ref))),
                          PesapalCurrency, FALSE)
  \/ \E r \in ReqIds : PesapalIPNResume(r, FALSE)

NextOutcome ==
  \/ FillCart({"p1"})
  \/ InitiateStep("mixed", {"t1"})
  \/ CallbackOutcome
  \/ IPNOutcome

SpecOutcome == Init /\ [][NextOutcome]_vars

\* two orders on the same products, their push notifications and
\* cancellations overlapping between read and write
IPNLedger ==
  \/ /\ Overlapping
     /\ \E r \in ReqIds, o \in OrderIds :
          PesapalIPNBegin(r, "t1", o, "COMPLETED", NumAmount(TotalOf(o)), PesapalCurrency, FALSE)
  \/ \E r \in ReqIds, x \in BOOLEAN : PesapalIPNResume(r, x)

NextLedger ==
  \/ IPNLedger
  \/ CancelStep("overlapping")

SpecLedger == InitWith(MaxStockOrders) /\ [][NextLedger]_vars

\* several orders competing for the same stock: payments are initiated,
\* notified as completed and cancelled, one by one or overlapping
NextStock ==
  \/ InitiateStep("mixed", {"t1"})
  \/ IPNLedger
  \/ CancelStep("mixed")

SpecStock == InitWith(MaxStockOrders) /\ [][NextStock]_vars

\* createOrder requests that overlap
NextNumber ==
  \/ AdminStep
  \/ CatalogueStep
  \/ FillCart(Products)
  \/ CreateOrderStep("freely", DeliveryMethods)

SpecNumber == InitCatalogue /\ [][NextNumber]_vars

\* everything that happens next to a stored order: the administrator
\* reprices, deactivates or deletes the product it contains, and sets its
\* status through either controller; the customer places orders from the
\* cart, initiates payment, writes the payment status and cancels; the
\* gateway sends callbacks and push notifications.  The requests overlap as
\* they come.
SnapshotBodies == {[price |-> 20], [active |-> FALSE]}
SnapshotStatuses == {"shipped", NoId}

NextSnapshot ==
  \/ EditStep({"p1"}, SnapshotBodies)
  \/ CreateOrderStep("overlapping", {"home"})
  \/ InitiateStep("overlapping", {"t1"})
  \/ ManualStep("overlapping")
  \/ CallbackStep("overlapping", {"t1"})
  \/ IPNStep("overlapping", {"t1"})
  \/ AdminStatus(SnapshotStatuses)
  \/ CancelStep("overlapping")

SpecSnapshot == Init /\ [][NextSnapshot]_vars

\* the token cache of the PayPal service under deliveries of the webhook
\* that overlap, each asking for the token
TokenDelivery ==
  \/ /\ Len(paypalAuth.issued) + paypalAuth.fetching < MaxFetches
     /\ UNCHANGED nReq
     /\ \E r \in ReqIds :
          HandlePayPalWebhookBegin(r, TRUE, ValidSig, "OTHER", NoOrder, AnyAmount, "USD")
  \/ \E r \in ReqIds, x \in FetchOutcomes, e \in ExpiresInInputs :
       HandlePayPalWebhookResume(r, x, e, FALSE)

NextToken ==
  \/ ClockTick
  \/ TokenDelivery

SpecToken == Init /\ [][NextToken]_vars

\* ------------------------------------------------------------------ claims
Deliveries == {"callback", "ipn", "webhook"}
Confirmations == Deliveries \cup {"capture"}
Placed(o) == o \in 1..Len(orders)
LineQty(o, p) == QtyOf(orders[o].items, p)

\* the reported amount is unusable or off the order total by more than 0.01
Mismatching(a, total) ==
  a.kind # "num" \/ Abs(a.v - total) * CentsPerUnit > ToleranceCents

\* the request that produced this state was a confirmation for order o
ConfirmedFor(l, o) == l.op \in Confirmations /\ l.oid = o
DeliveredFor(l, o) == l.op \in Deliveries /\ l.oid = o

\* the handlers that carry no signature and query the gateway themselves
Unsigned == {"callback", "ipn"}

\* request r runs one of its segments in this step
RunsNow(r) == reqs[r] # <<>> /\ reqs'[r] # reqs[r]

\* the verification of a delivery succeeded
SignatureGood(sig) == sig.headers /\ sig.call = "ok" /\ sig.status = "SUCCESS"

\* up to and including this step the requests were served one after another:
\* none was admitted while another was in flight (nReq counts these
\* admissions where requests are admitted with Mixed)
OneAfterAnother == nReq' = 0

\* what C1 requires of one step
C1_Step ==
  \A o \in OrderIds :
    (Placed(o) /\ DeliveredFor(last', o)) =>
      /\ (orders[o].paymentStatus # "paid" /\ last'.amt.kind = "num"
            /\ ~Mismatching(last'.amt, orders[o].total) /\ last'.act # "aborted")
         => last'.act = "fulfilled"
      /\ last'.act = "fulfilled" =>
           /\ orders[o].paymentStatus # "paid"
           /\ orders'[o].paymentStatus = "paid"
           /\ \A p \in Products : decd'[o][p] = LineQty(o, p)
           /\ nClear'[o] = 1
      /\ orders[o].paymentStatus = "paid" =>
           /\ last'.act = "already_paid"
           /\ last'.resp \in {"success", "200"}
           /\ UNCHANGED <<products, carts, orders, decd, nClear>>

\* C1: when confirmations are delivered one after another, a delivery
\* (callback, push notification or signed webhook) that reports completed
\* with the matching amount for an order not yet paid is the one that
\* fulfils it (unless its transaction aborts): every line's quantity has then
\* been subtracted exactly once and the cart cleared exactly once in total;
\* and every delivery for an order that is already paid is a no-op answered
\* with success.
C1_SequentialIdempotence == [][OneAfterAnother => C1_Step]_vars

\* C2: with confirmation handlers interleaved, the stock of each line of an
\* order is subtracted at most once and the cart is cleared at most once.
C2_AtMostOnce ==
  \A o \in OrderIds :
    Placed(o) =>
      /\ nClear[o] <= 1
      /\ \A p \in Products : decd[o][p] <= LineQty(o, p)

\* C3: a confirmation whose amount is unusable or differs from the order
\* total by more than 0.01 never leaves the order paid, on any path.
C3_MismatchNeverPays ==
  \A o \in OrderIds :
    (Placed(o) /\ ConfirmedFor(last, o) /\ last.amt # NoAmount
       /\ Mismatching(last.amt, orders[o].total))
    => orders[o].paymentStatus # "paid"

\* what C4 requires of one step
C4_Step ==
  \A o \in OrderIds :
    (Placed(o) /\ ConfirmedFor(last', o) /\ last'.amt.kind = "num"
       /\ Mismatching(last'.amt, orders[o].total))
    => /\ orders'[o].paymentStatus = "failed"
       /\ products' = products
       /\ carts' = carts

\* C4: a completed confirmation (a webhook delivery included) with an amount
\* off the order total by more than the tolerance leaves the order with
\* paymentStatus failed, and changes no product's stock and no cart.
C4_MismatchMarksFailed == [][C4_Step]_vars

\* C5: no order is paid without every line's stock subtracted and the cart
\* cleared on its account.
C5_AllOrNothing ==
  \A o \in OrderIds :
    (Placed(o) /\ orders[o].paymentStatus = "paid") =>
      /\ nClear[o] >= 1
      /\ \A p \in Products : decd[o][p] = LineQty(o, p)

\* what C6 requires of one step
C6_Step ==
  \A o \in OrderIds :
    (Placed(o) /\ orders[o].paymentStatus # "paid" /\ orders[o].orderStatus = "pending"
       /\ DeliveredFor(last', o) /\ last'.amt.kind = "num"
       /\ ~Mismatching(last'.amt, orders[o].total) /\ last'.act # "aborted")
    => /\ orders'[o].paymentStatus = "paid"
       /\ orders'[o].orderStatus = "confirmed"
       /\ \A p \in Products :
            products'[p].stock = products[p].stock - LineQty(o, p)
       /\ carts'[orders[o].userId] = <<>>

\* C6: the first delivery reporting completed with the matching amount, for
\* an order not yet paid whose orderStatus is pending, is processed: the
\* order is then paid and confirmed, every product's stock lower by exactly
\* the quantity ordered of it, and the buyer's cart empty.
C6_FirstConfirmationFulfils == [][C6_Step]_vars

\* C7: a cancellation has added to each product's stock exactly the quantity
\* the order had subtracted from it before.
C7_CancelRestoresSubtracted ==
  \A o \in OrderIds :
    (Placed(o) /\ last.op = "cancelOrder" /\ last.oid = o /\ last.act = "cancelled")
    => \A p \in Products : restd[o][p] = decd[o][p]

\* what C8 requires of one step
C8_Step ==
  \A o \in OrderIds :
    (Placed(o) /\ last'.op = "cancelOrder" /\ last'.oid = o) =>
      IF orders[o].orderStatus \in {"pending", "confirmed"}
      THEN /\ last'.resp \in {"none", "200"}
           /\ last'.resp = "200" <=> orders'[o].orderStatus = "cancelled"
      ELSE /\ last'.resp = "CANCEL_NOT_ALLOWED"
           /\ UNCHANGED <<products, carts, orders>>

\* C8: cancelOrder succeeds exactly from orderStatus pending or confirmed;
\* from any other status (cancelled by an earlier cancel included) it
\* answers CANCEL_NOT_ALLOWED and changes neither the order nor any stock.
C8_CancelGuard == [][C8_Step]_vars

\* what C9 requires of one step
C9_Step ==
  \A o \in OrderIds :
    (Placed(o) /\ orders[o].orderStatus = "cancelled"
       /\ (\E p \in Products : decd[o][p] > 0 /\ restd[o][p] > 0)
       /\ last'.op \in Confirmations /\ last'.oid \in {o, NoOrder})
    => /\ UNCHANGED <<products, carts>>
       /\ orders'[o].orderStatus = orders[o].orderStatus

\* C9: once an order that was fulfilled has been cancelled, a later
\* confirmation for it changes neither any stock, nor the cart, nor the
\* order's orderStatus.
C9_NoFulfilmentAfterCancel == [][C9_Step]_vars

\* the totals of an order document
TotalsHold(ord) ==
  /\ ord.total = ord.subtotal + ord.shipping + ord.tax
  /\ ord.subtotal = SumSeq([i \in 1..Len(ord.items) |-> ord.items[i].total])
  /\ \A i \in 1..Len(ord.items) :
       ord.items[i].total = ord.items[i].price * ord.items[i].quantity

\* the createOrder request of this step got as far as Order.create
ReachedCreate == last'.op = "createOrder" /\ last'.act \in {"invalid", "created"}

\* the products as request r of createOrder populated them into its cart:
\* held since the populate query when the cart had to be saved first, read
\* in this step otherwise
PopulatedBy(r) ==
  IF reqs[r][1].op = "createOrder.save" THEN reqs[r][1].prods ELSE products

\* C10: the order document a createOrder request hands to Order.create has
\* total = subtotal + shipping + tax, a subtotal that is the sum of its line
\* totals, line totals that are unit price times quantity, and for unit
\* prices the prices of the products as the request read them from the
\* Product collection, whatever price the cart items carry.
C10_Totals ==
  [][ReachedCreate =>
       /\ last'.doc # NoDocument
       /\ TotalsHold(last'.doc)
       /\ last'.doc.shipping \in {0, HomeShippingFee}
       /\ last'.doc.tax = TaxAmount
       /\ \E r \in ReqIds :
            /\ RunsNow(r)
            /\ \A i \in 1..Len(last'.doc.items) :
                 last'.doc.items[i].price
                   = PopulatedBy(r)[last'.doc.items[i].productId].price]_vars

\* a createOrder request handed over a document whose line carries the
\* product's price while the cart item still carries an older one
C10_Witness ==
  /\ last.op = "createOrder" /\ last.act = "invalid"
  /\ last.doc # NoDocument
  /\ Len(last.doc.items) = 1 /\ Len(carts["u1"]) = 1
  /\ carts["u1"][1].productId = last.doc.items[1].productId
  /\ carts["u1"][1].price # last.doc.items[1].price
  /\ last.doc.items[1].price = products[last.doc.items[1].productId].price
  /\ last.doc.total = last.doc.items[1].price * last.doc.items[1].quantity
                        + last.doc.shipping

\* the items of a cart that request r of createOrder keeps: those whose
\* product it populated and found active
KeptBy(r) ==
  FilterSeq(reqs[r][1].read,
            [p \in Products |-> ~reqs[r][1].prods[p].deleted /\ reqs[r][1].prods[p].active])

LiveItem(it) == ~products[it.productId].deleted /\ products[it.productId].active
LiveItems(items) == SelectSeq(items, LiveItem)

\* a stored cart that holds items, none of them live
DeadCart(u) == carts[u] # <<>> /\ LiveItems(carts[u]) = <<>>

\* request r of createOrder read a cart whose items all reference deleted or
\* inactive products and is about to save it
ReadDeadCart(r) ==
  Held(r, "createOrder.save") /\ RunsNow(r) /\ reqs[r][1].items = <<>>

\* what C12 requires of one step
C12_Step ==
  /\ last'.op = "createOrder" =>
       /\ (\A u \in Users : DeadCart(u)) =>
            /\ last'.resp \in {"none", "CART_CORRUPTED"}
            /\ last'.oid = NoOrder
            /\ orders' = orders
            /\ last'.resp = "none" =>
                 \E r \in ReqIds :
                   /\ reqs'[r] # <<>>
                   /\ reqs'[r][1].op \in {"createOrder.populate", "createOrder.save"}
                   /\ reqs'[r][1].op = "createOrder.save" => reqs'[r][1].items = <<>>
       /\ last'.resp = "CART_CORRUPTED" =>
            /\ orders' = orders
            /\ products' = products
            /\ \E u \in Users :
                 /\ DeadCart(u)
                 /\ carts' = [carts EXCEPT ![u] = <<>>]
  /\ \A r \in ReqIds :
       ReadDeadCart(r) =>
         /\ last'.resp = "CART_CORRUPTED"
         /\ orders' = orders
         /\ \A i \in 1..Len(carts'[reqs[r][1].u]) :
              LiveItem(carts'[reqs[r][1].u][i])

\* C12: createOrder on a cart whose items all reference deleted or inactive
\* products is rejected with the empty-cart error of this case (400
\* CART_CORRUPTED), creates no order, and leaves the stored cart without the
\* invalid items, that is, empty.
C12_DeadCartRejected == [][C12_Step]_vars

\* this step is the arrival of a request: no request in flight moves
ArrivesNow == \A r \in ReqIds : reqs[r] # <<>> => reqs'[r] = reqs[r]

\* what C13 requires of one step
C13_Step ==
  /\ \A r \in ReqIds :
       /\ (Held(r, "webhook.call") /\ RunsNow(r) /\ ~SignatureGood(reqs[r][1].sig)) =>
            /\ last'.act = "bad_signature"
            /\ reqs'[r] = <<>>
            /\ UNCHANGED <<products, carts, orders, decd, nClear>>
       /\ (Held(r, "webhook.token") /\ RunsNow(r)
             /\ (last'.act # "token" \/ ~reqs[r][1].sig.headers)) =>
            /\ last'.act = "bad_signature"
            /\ reqs'[r] = <<>>
            /\ UNCHANGED <<products, carts, orders, decd, nClear>>
       /\ (reqs'[r] # <<>> /\ reqs'[r][1].op \in {"webhook.call", "webhook.transaction"})
          => reqs'[r][1].sig.headers
  /\ (last'.op = "webhook" /\ last'.act = "bad_signature") =>
       UNCHANGED <<products, carts, orders, decd, nClear>>

\* C13: a webhook delivery whose signature verification does not succeed
\* (verdict other than SUCCESS, signature headers missing, or the token
\* request or the verification call failing) is discarded at that point: no
\* order, stock or cart changes and nothing more is done for it; a delivery
\* without the signature headers gets no further than the token.
C13_UnverifiedWebhookDiscarded == [][C13_Step]_vars

\* a delivery with a verdict other than SUCCESS was discarded after the
\* verification call, and the order it names is as it was
C13_Witness ==
  /\ last.op = "webhook" /\ last.act = "bad_signature"
  /\ paypalAuth.accessToken # NoToken
  /\ NoneInFlight
  /\ \E o \in OrderIds :
       /\ Placed(o)
       /\ orders[o].paymentStatus = "pending"
       /\ decd[o] = [p \in Products |-> 0]
       /\ carts[orders[o].userId] # <<>>

\* the segments of a webhook delivery that come after its acknowledgment
WebhookSegments == {"webhook.token", "webhook.call", "webhook.transaction"}

\* what C14 requires of one step
C14_Step ==
  last'.op = "webhook" =>
    IF ArrivesNow
    THEN /\ last'.resp = "200"
         /\ UNCHANGED <<products, carts, orders>>
         /\ (\E r \in ReqIds : reqs[r] = <<>> /\ reqs'[r] # <<>>) =>
              last'.act = "acknowledged"
         /\ last'.act \in {"acknowledged", "parse_error", "bad_signature"}
    ELSE /\ last'.resp = "none"
         /\ \E r \in ReqIds : RunsNow(r) /\ reqs[r][1].op \in WebhookSegments

\* C14: every webhook delivery is answered 200 on arrival, whatever it
\* carries, in a step that changes no order, stock or cart; the verification
\* call and everything that follows it happen in later steps of a request
\* already acknowledged, which answer nothing, whatever their outcome.  (A
\* delivery without signature headers that arrives while the token is cached
\* is given up in the step of its arrival, after the acknowledgment.)
C14_AckBeforeHandling == [][C14_Step]_vars

\* a delivery that will not pass verification has been acknowledged, and
\* nothing has been checked yet
C14_Witness ==
  /\ last.op = "webhook" /\ last.act = "acknowledged" /\ last.resp = "200"
  /\ \E r \in ReqIds :
       /\ reqs[r] # <<>>
       /\ reqs[r][1].op \in {"webhook.token", "webhook.call"}
       /\ ~SignatureGood(reqs[r][1].sig)
       /\ Placed(reqs[r][1].ppid)
       /\ orders[reqs[r][1].ppid].paymentStatus = "pending"

\* the status texts of the gateway that mean completed
SaysCompleted(gw) == gw \in {"COMPLETED", "Completed"}

\* what C15 requires of one step
C15_Step ==
  \A o \in OrderIds :
    (Placed(o) /\ last'.op \in Unsigned
       /\ orders[o].paymentStatus # "paid" /\ orders'[o].paymentStatus = "paid")
    => /\ last'.oid = o
       /\ SaysCompleted(last'.gw)

\* C15: the browser callback and the push-notification handler make an order
\* paid only in a request whose own status query to the gateway returned
\* completed; a request whose query failed, or returned another status,
\* never makes an order paid.
C15_PaidOnlyAfterQuery == [][C15_Step]_vars

\* an order was made paid by a request whose query returned completed
C15_Witness ==
  \E o \in OrderIds :
    /\ Placed(o) /\ last.op \in Unsigned /\ last.oid = o
    /\ last.act = "fulfilled" /\ SaysCompleted(last.gw)
    /\ orders[o].paymentStatus = "paid"
    /\ orders[o].paymentId \in TrackingIds

\* C16: the push-notification endpoint answers 200 for every delivery,
\* including one whose merchant reference resolves to no order.  Stated here
\* for the answers to deliveries whose gateway query succeeded, which the
\* claim includes.
C16_IPNAlwaysAcknowledged ==
  (last.op = "ipn" /\ last.gw # "thrown" /\ last.resp # "none") => last.resp = "200"

\* C17: in every reachable state every product's stock is an integer
\* greater than or equal to zero.
C17_StockNonNegative ==
  \A p \in Products : products[p].stock \in Int /\ products[p].stock >= 0

\* what C18 requires of one step: the request that lost the race writes nothing
C18_Step ==
  \A r \in ReqIds :
    /\ (Held(r, "cancelOrder.restore") /\ RunsNow(r)
          /\ reqs[r][1].loaded.paymentStatus # "paid"
          /\ orders[reqs[r][1].oid].paymentStatus = "paid")
       => UNCHANGED <<products, carts, orders>>
    /\ (Held(r, "ipn.save") /\ RunsNow(r)
          /\ SaysCompleted(reqs[r][1].status)
          /\ ~Mismatching(reqs[r][1].amt, reqs[r][1].loaded.total)
          /\ reqs[r][1].loaded.orderStatus # "cancelled"
          /\ orders[reqs[r][1].oid].orderStatus = "cancelled")
       => UNCHANGED <<products, carts, orders>>

\* C18: when cancelOrder and a fulfilment attempt for the same not yet paid
\* order interleave, the one that commits second finds its precondition
\* gone and changes nothing: never are both the stock restoration of the
\* cancel and the fulfilment of the order applied.
C18_CancelFulfilExclusive == [][C18_Step]_vars

\* C19: two interleaved cancelOrder requests for one order add each line
\* item's quantity back to the stock at most once in total.
C19_RestoredAtMostOnce ==
  \A o \in OrderIds : \A p \in Products :
    Placed(o) => restd[o][p] <= LineQty(o, p)

\* the request of this step met a failed gateway call: a status query, an
\* IPN confirmation or a capture call that threw, or the token request of a
\* webhook delivery that failed
GatewayFailedNow ==
  \/ last'.op \in Confirmations /\ last'.act = "gateway_error"
  \/ \E r \in ReqIds :
       Held(r, "webhook.token") /\ RunsNow(r) /\ last'.act = "bad_signature"

\* C20: when the gateway call of a confirmation or capture fails (token,
\* status query, IPN confirmation or capture call throwing or timing out),
\* no order's paymentStatus is set to failed, and order, stock and cart stay
\* as they were.
C20_GatewayErrorChangesNothing ==
  [][GatewayFailedNow => UNCHANGED <<products, carts, orders>>]_vars

\* the status query for an order awaiting its payment failed and the order
\* is still awaiting its payment
C20_Witness ==
  \E o \in OrderIds :
    /\ Placed(o) /\ last.op \in Confirmations /\ last.act = "gateway_error"
    /\ last.oid = o
    /\ orders[o].paymentStatus = "processing"

\* the status query of the next state observed completed for order o
PolledCompleted(o) ==
  last'.op = "status" /\ last'.oid = o /\ SaysCompleted(last'.gw)

\* a complete fulfilment of order o in one step
FulfilsNow(o) ==
  /\ orders[o].paymentStatus # "paid"
  /\ orders'[o].paymentStatus = "paid"
  /\ \A p \in Products : products'[p].stock = products[p].stock - Moved(orders[o].items, p)
  /\ carts'[orders[o].userId] = <<>>
  /\ nClear'[o] = nClear[o] + 1

\* what C21 requires of one step
C21_Step ==
  last'.op = "status" =>
    \/ UNCHANGED <<products, carts, orders>>
    \/ \E o \in OrderIds :
         /\ Placed(o) /\ PolledCompleted(o)
         /\ ~Mismatching(last'.amt, orders[o].total)
         /\ FulfilsNow(o)

\* C21: a status query changes no order, no product's stock and no cart,
\* unless it is a complete fulfilment (amount checked, stock subtracted, cart
\* cleared) of a not yet paid order for which the gateway reported completed;
\* it never makes an order paid without those effects.
C21_StatusQueryReadOnly == [][C21_Step]_vars

\* a status query saw the gateway report completed for an order that awaits
\* its payment, and the order still awaits it with its stock untouched
C21_Witness ==
  \E o \in OrderIds :
    /\ Placed(o) /\ last.op = "status" /\ last.oid = o
    /\ SaysCompleted(last.gw) /\ last.amt = NumAmount(orders[o].total)
    /\ orders[o].paymentStatus = "processing"
    /\ orders[o].paymentId \in TrackingIds
    /\ carts[orders[o].userId] # <<>>
    /\ \A p \in Products : decd[o][p] = 0 /\ products[p].stock = InitStock

\* order o awaits a payment that was initiated at the gateway
AwaitsPayment(o) ==
  /\ Placed(o)
  /\ orders[o].paymentStatus = "processing"
  /\ orders[o].paymentId \in TrackingIds

\* order o is paid and fulfilled once
PaidAndFulfilled(o) ==
  /\ Placed(o)
  /\ orders[o].paymentStatus = "paid"
  /\ nClear[o] = 1
  /\ \A p \in Products : decd[o][p] = LineQty(o, p)

\* C22: when the gateway holds a completed payment of the matching amount
\* for an order and no callback, push notification or webhook is delivered,
\* the customer's repeated status queries eventually leave the order paid and
\* fulfilled (stock subtracted once, cart cleared).
C22_PollingFulfils ==
  \A o \in OrderIds : AwaitsPayment(o) ~> PaidAndFulfilled(o)

\* the requests a customer makes with their own session
CustomerOps ==
  {"addToCart", "updateCartItem", "removeFromCart", "clearCart", "getCart",
   "createOrder", "initiatePayment", "createPayPalOrder", "cancelOrder",
   "updatePaymentStatus", "status"}

\* what C23 requires of one step
C23_Step ==
  \A o \in OrderIds :
    Placed(o) =>
      /\ (orders[o].paymentStatus # "paid" /\ orders'[o].paymentStatus = "paid") =>
           /\ last'.op \in Confirmations
           /\ last'.oid = o
           /\ last'.act = "fulfilled"
           /\ last'.amt.kind = "num" => ~Mismatching(last'.amt, orders[o].total)
      /\ last'.op \in CustomerOps =>
           (orders[o].paymentStatus = "paid") = (orders'[o].paymentStatus = "paid")

\* C23: an order's paymentStatus becomes paid only in a step that handles a
\* completed outcome verified with the gateway whose amount matches the
\* order total; no request of the customer sets paymentStatus to paid or
\* takes it away from paid.  (An amount that does not parse as a number is
\* the case of C3 and is left to it.)
C23_PaidOnlyThroughVerification == [][C23_Step]_vars

\* C24: one completed payment makes at most one order paid, and only the
\* order its tracking id was issued for: an order paid by a callback or a
\* push notification carries the tracking id issued for it, also when the
\* request paired the tracking id with the reference of another order of
\* equal total.
C24_OnePaymentOneOrder ==
  \A o \in OrderIds :
    (Placed(o) /\ orders[o].paymentStatus = "paid"
       /\ orders[o].paymentId \in TrackingIds)
    => IssuedFor(orders[o].paymentId) = o

\* C25: once an order's paymentStatus is paid, no later step of the engine
\* (initiation, callback, push notification, webhook, status query, cancel),
\* run after or interleaved with the fulfilment that paid it, moves it to
\* another value; a payment initiation that read the order before it was
\* paid does not write processing over paid.
C25_PaidAbsorbing ==
  [][\A o \in OrderIds :
       (Placed(o) /\ orders[o].paymentStatus = "paid")
       => orders'[o].paymentStatus = "paid"]_vars

\* the request of this step was a callback or push notification for the not
\* yet paid order o whose query returned a status text that reads gw in
\* upper case, and this step is the one in which the handler acts on it
OutcomeFor(o, gw) ==
  /\ Placed(o) /\ orders[o].paymentStatus # "paid"
  /\ last'.op \in Unsigned /\ last'.oid = o /\ ToUpperCase(last'.gw) = gw
  /\ last'.act # "loaded"

\* no fulfilment effect on order o: orderStatus, stock and carts as before
NoFulfilmentEffect(o) ==
  /\ orders'[o].orderStatus = orders[o].orderStatus
  /\ products' = products
  /\ carts' = carts

\* the values of paymentStatus that are not an outcome of the payment
NonTerminal == {"pending", "processing"}

\* what C26 requires of one step
C26_Step ==
  \A o \in OrderIds :
    /\ OutcomeFor(o, "FAILED") =>
         /\ orders'[o].paymentStatus = "failed"
         /\ NoFulfilmentEffect(o)
    /\ OutcomeFor(o, "PENDING") =>
         /\ orders'[o].paymentStatus \in NonTerminal
         /\ NoFulfilmentEffect(o)

\* C26: a confirmation on a not yet paid order whose verified outcome is
\* failed sets paymentStatus failed, and one whose outcome is pending leaves
\* paymentStatus non-terminal (processing, or pending where no payment was
\* started yet); in both cases orderStatus, every product's stock and the
\* cart are unchanged.
C26_NonCompletedNoEffects == [][C26_Step]_vars

\* the currency each gateway is expected to report: payments are submitted
\* to Pesapal in KES, PayPal orders are created in USD
ExpectedCurrency(op) == IF op \in Unsigned THEN PesapalCurrency ELSE "USD"

\* the confirmation of record l carried a currency code other than the
\* expected one
OtherCurrency(l) == l.cur \notin {NoCurrency, NoId, ExpectedCurrency(l.op)}

\* C27: a completed confirmation whose currency differs from the currency
\* expected for its gateway never makes the order paid: the order is marked
\* failed, and stock and cart stay as they were.
C27_CurrencyVerified ==
  [][\A o \in OrderIds :
       (Placed(o) /\ ConfirmedFor(last', o) /\ OtherCurrency(last')
          /\ orders[o].paymentStatus # "paid")
       => /\ orders'[o].paymentStatus = "failed"
          /\ products' = products
          /\ carts' = carts]_vars

\* C28: on every ingress path a fulfilment advances orderStatus to confirmed
\* only from pending; an order in any other orderStatus (processing,
\* shipped, delivered, cancelled) keeps it when it is fulfilled.
C28_AdvanceOnlyFromPending ==
  [][\A o \in OrderIds :
       (Placed(o) /\ ConfirmedFor(last', o) /\ last'.act = "fulfilled")
       => orders'[o].orderStatus =
            IF orders[o].orderStatus = "pending" THEN "confirmed"
            ELSE orders[o].orderStatus]_vars

\* C29: an order's orderStatus becomes cancelled only from pending or
\* confirmed, through whatever operation, and an order does not become
\* cancelled without its line-item quantities having been added back to the
\* stock by the request that cancels it.
C29_CancelledOnlyWithRestoration ==
  [][\A o \in OrderIds :
       (Placed(o) /\ orders[o].orderStatus # "cancelled"
          /\ orders'[o].orderStatus = "cancelled")
       => /\ orders[o].orderStatus \in {"pending", "confirmed"}
          /\ \A p \in Products : restd'[o][p] >= Moved(orders[o].items, p)]_vars

\* what C30 requires of one step: an aborted attempt leaves everything as it
\* was, the delivery that arrives after it for the order, still not paid, is
\* let through the gate, and it fulfils
C30_Step ==
  \A o \in OrderIds :
    Placed(o) =>
      /\ (DeliveredFor(last', o) /\ last'.act = "aborted") =>
           UNCHANGED <<products, carts, orders, decd, nClear>>
      /\ (AfterAbort(o) /\ DeliveredFor(last', o) /\ ArrivesNow
            /\ orders[o].paymentStatus # "paid")
         => last'.act = "loaded"
      /\ (DeliveredFor(last', o) /\ last'.retry /\ last'.amt.kind = "num"
            /\ ~Mismatching(last'.amt, orders[o].total) /\ last'.act # "aborted")
         => /\ last'.act = "fulfilled"
            /\ orders'[o].paymentStatus = "paid"
            /\ \A p \in Products :
                 /\ decd'[o][p] = LineQty(o, p)
                 /\ products'[p].stock = products[p].stock - LineQty(o, p)
            /\ nClear'[o] = 1
            /\ carts'[orders[o].userId] = <<>>

\* C30: after a fulfilment attempt that failed and was rolled back, a later
\* delivery of the same completed confirmation, on any ingress path, is not
\* stopped by the already-paid gate and fulfils the order in full: the order
\* ends paid with every line's quantity subtracted exactly once and the cart
\* cleared exactly once in total.
C30_RetryAfterRollback == [][C30_Step]_vars

\* the answer the handler gives for a committed fulfilment: the callback's
\* redirect is taken from the gateway's status text, the others answer 200
CommittedAnswer(l) ==
  IF l.op = "callback"
  THEN (IF l.gw = "COMPLETED" THEN "success" ELSE "failed")
  ELSE "200"

\* the fulfilment transaction of order o commits in this step
CommitsNow(o) ==
  /\ orders'[o].paymentStatus = "paid"
  /\ \A p \in Products : products'[p].stock = products[p].stock - Moved(orders[o].items, p)
  /\ carts'[orders[o].userId] = <<>>
  /\ nClear'[o] = nClear[o] + 1

\* what C32 requires of one step
C32_Step ==
  /\ last'.mail # NoMail =>
       /\ last'.act = "fulfilled"
       /\ last'.oid \in OrderIds /\ Placed(last'.oid)
       /\ CommitsNow(last'.oid)
       /\ \E r \in ReqIds :
            /\ RunsNow(r) /\ reqs'[r] = <<>>
            /\ reqs[r][1].oid = last'.oid
            /\ reqs[r][1].loaded.paymentStatus # "paid"
       /\ last'.resp = CommittedAnswer(last')
  /\ last'.act = "aborted" => last'.mail = NoMail

\* C32: the order-confirmation notification is invoked only by a request
\* whose fulfilment transaction committed, never by one whose attempt was
\* rolled back; when the notification fails the order is paid, the stock
\* decremented and the cart cleared all the same, and the handler answers
\* as it does for a committed fulfilment.
C32_NotificationAfterCommit == [][C32_Step]_vars

\* a callback fulfilled an order and the notification failed
C32_Witness ==
  /\ last.op = "callback" /\ last.act = "fulfilled" /\ last.mail = "failed"
  /\ last.resp = "success"
  /\ orders[last.oid].paymentStatus = "paid"
  /\ carts[orders[last.oid].userId] = <<>>

\* total quantity of product p that the stock loops recorded in hist moved
MovedTotal(hist, p) == SumSeq([o \in OrderIds |-> hist[o][p]])

\* C33: stock updates are not lost: whatever the interleaving of
\* fulfilments and cancellations of different orders containing the same
\* product, the product's stock is its initial stock minus the quantities
\* the fulfilments subtracted plus the quantities the cancellations put back.
C33_NoLostStockUpdate ==
  \A p \in Products :
    ~products[p].deleted =>
      products[p].stock = InitStock - MovedTotal(decd, p) + MovedTotal(restd, p)

\* order 1 was fulfilled by a notification while a cancellation of order 2,
\* containing the same product, was half-way through its stock loop
C33_Witness ==
  /\ last.op = "ipn" /\ last.act = "fulfilled" /\ last.oid = 1
  /\ \E q \in ReqIds :
       /\ Held(q, "cancelOrder.restore")
       /\ reqs[q][1].oid = 2
  /\ \E p \in Products : decd[1][p] > 0 /\ restd[2][p] > 0

\* C34: no two orders have the same order number, and a createOrder call
\* that got as far as inserting its order succeeds, also when another call
\* runs at the same time: it gets a number of its own.
C34_UniqueOrderNumbers ==
  [][/\ \A i, j \in 1..Len(orders') :
          i # j => orders'[i].orderNumber # orders'[j].orderNumber
     /\ ReachedCreate =>
          /\ last'.act = "created"
          /\ orders'[Len(orders')].orderNumber # NoNumber]_vars

\* the cart reads and writes the filter is claimed for
FilteredCartOps == {"getCart", "addToCart", "updateCartItem", "removeFromCart"}

\* C35: when a cart read (getCart) or a cart write (addToCart,
\* updateCartItem, removeFromCart) has completed, the stored cart holds no
\* item whose product was deleted or deactivated.
C35_CartHoldsNoDeadItem ==
  [][(last'.op \in FilteredCartOps /\ last'.resp = "200")
     => \A u \in Users : \A i \in 1..Len(carts'[u]) :
          /\ ~products'[carts'[u][i].productId].deleted
          /\ products'[carts'[u][i].productId].active]_vars

\* the part of an order that is fixed at creation
Snapshot(doc) ==
  [items |-> doc.items, subtotal |-> doc.subtotal, shipping |-> doc.shipping,
   tax |-> doc.tax, total |-> doc.total]

\* C36: once an order is created no operation changes its line items,
\* subtotal, shipping, tax or total: not a product price change, a cart
\* mutation, a payment initiation, a confirmation, a fulfilment or a
\* cancellation; and no order disappears.
C36_SnapshotImmutable ==
  [][/\ Len(orders') >= Len(orders)
     /\ \A o \in 1..Len(orders) : Snapshot(orders'[o]) = Snapshot(orders[o])]_vars

\* an order was fulfilled and cancelled after the price of one of its
\* products had changed, and still carries the price it was created with
C36_Witness ==
  \E o \in 1..Len(orders) :
    /\ orders[o].paymentStatus = "paid"
    /\ orders[o].orderStatus = "cancelled"
    /\ \E i \in 1..Len(orders[o].items) :
         /\ ~products[orders[o].items[i].productId].deleted
         /\ products[orders[o].items[i].productId].price # orders[o].items[i].price
         /\ orders[o].items[i].total = orders[o].items[i].price * orders[o].items[i].quantity
    /\ orders[o].total = orders[o].subtotal + orders[o].shipping + orders[o].tax

\* the values of the status parameter of the callback's redirect
RedirectStatuses == {"success", "failed", "error"}

\* C37: the browser callback always answers with a redirect, and the
\* redirect says status=success exactly when the order's paymentStatus is
\* paid once the callback has been handled, whatever the spelling or letter
\* case in which the gateway reported the completed status.
C37_RedirectReflectsOutcome ==
  [][(last'.op = "callback" /\ last'.act # "loaded")
     => /\ last'.resp \in RedirectStatuses
        /\ last'.resp = "success"
             <=> (last'.oid # NoOrder /\ orders'[last'.oid].paymentStatus = "paid")]_vars

\* the cache holds a token and the time is earlier than that token's
\* declared expiry less the five minutes
CacheFresh ==
  /\ paypalAuth.accessToken # NoToken
  /\ paypalAuth.now < paypalAuth.issued[paypalAuth.accessToken] - RefreshMargin

\* the cached expiry is the one declared for the cached token, less the
\* five minutes
CacheMatches ==
  paypalAuth.accessToken # NoToken =>
    /\ paypalAuth.accessToken \in 1..Len(paypalAuth.issued)
    /\ paypalAuth.tokenExpiry = paypalAuth.issued[paypalAuth.accessToken] - RefreshMargin

\* what C38 requires of one step.  getAccessToken is called by the delivery
\* that arrives (it goes on with the cached token, or waits for a token
\* request) and answered for the delivery that waited.
C38_Step ==
  /\ \A r \in ReqIds :
       /\ (reqs[r] = <<>> /\ reqs'[r] # <<>>) =>
            /\ reqs'[r][1].op = "webhook.call" <=> CacheFresh
            /\ reqs'[r][1].op = "webhook.call" => paypalAuth' = paypalAuth
            /\ reqs'[r][1].op # "webhook.call" =>
                 /\ reqs'[r][1].op = "webhook.token"
                 /\ paypalAuth'.fetching = paypalAuth.fetching + 1
       /\ (Held(r, "webhook.token") /\ RunsNow(r)) =>
            IF reqs'[r] = <<>>
            THEN /\ last'.act = "bad_signature"
                 /\ paypalAuth'.accessToken = paypalAuth.accessToken
                 /\ paypalAuth'.tokenExpiry = paypalAuth.tokenExpiry
            ELSE /\ reqs'[r][1].op = "webhook.call"
                 /\ paypalAuth'.accessToken = Len(paypalAuth'.issued)
                 /\ Len(paypalAuth'.issued) = Len(paypalAuth.issued) + 1
  /\ CacheMatches'

\* C38: getAccessToken returns the cached token only while the time is
\* earlier than the token's declared expiry minus five minutes and fetches
\* a new one otherwise; a failed fetch raises an error and returns no token,
\* the stale one included; and whatever the overlap of refreshes, the cache
\* holds a token the gateway issued together with that token's own expiry.
C38_TokenCache == [][C38_Step]_vars

\* two refreshes overlapped, both have completed, and the cache holds the
\* token of the later one, from which a delivery that arrived later was
\* served
C38_Witness ==
  /\ paypalAuth.overlap
  /\ paypalAuth.fetching = 0
  /\ paypalAuth.accessToken = 2
  /\ paypalAuth.now > 0
  /\ last.op = "webhook" /\ last.act = "acknowledged"
  /\ \A r \in ReqIds : reqs[r] # <<>> => reqs[r][1].op = "webhook.call"
  /\ \E r \in ReqIds : reqs[r] # <<>>
====
